---- MODULE Spec2Model ----
(***************************************************************************)
(* Shell command interception and conversion pipeline of the Cosmos web    *)
(* wrapper (backend/services/cosmos_web_wrapper.py).                        *)
(*                                                                         *)
(* Strings are sequences of one-character strings, so that strip, lower,   *)
(* startswith, split and the truth value of a string are computed as       *)
(* Python computes them.  A fixed message literal of the source is kept as *)
(* one multi-character element: it is never empty and never equal to text  *)
(* that comes from a command or a file.                                    *)
(***************************************************************************)
EXTENDS Integers, Sequences, FiniteSets, TLC

\* ---------------------------------------------------------------- bounds
MaxWrappers == 2
MaxCalls == 2
MaxMessages == 2

\* direct calls of the classifier methods whose results are kept
MaxClassifications == 2

\* ------------------------------------------------- Python str operations
Whitespace == {" ", "\t", "\n", "\r"}

UpperCase == <<"A", "B", "C", "D", "E", "F", "G", "H", "I", "J", "K", "L", "M",
               "N", "O", "P", "Q", "R", "S", "T", "U", "V", "W", "X", "Y", "Z">>

LowerCase == <<"a", "b", "c", "d", "e", "f", "g", "h", "i", "j", "k", "l", "m",
               "n", "o", "p", "q", "r", "s", "t", "u", "v", "w", "x", "y", "z">>

LowerChar(c) ==
    IF \E i \in 1..Len(UpperCase) : UpperCase[i] = c
    THEN LowerCase[CHOOSE i \in 1..Len(UpperCase) : UpperCase[i] = c]
    ELSE c

Lower(s) == [i \in 1..Len(s) |-> LowerChar(s[i])]

RECURSIVE LStripSet(_, _)
LStripSet(s, chars) ==
    IF s # <<>> /\ Head(s) \in chars THEN LStripSet(Tail(s), chars) ELSE s

RECURSIVE RStripSet(_, _)
RStripSet(s, chars) ==
    IF s # <<>> /\ s[Len(s)] \in chars
    THEN RStripSet(SubSeq(s, 1, Len(s) - 1), chars)
    ELSE s

StripSet(s, chars) == RStripSet(LStripSet(s, chars), chars)

Strip(s) == StripSet(s, Whitespace)

StartsWith(s, p) == Len(s) >= Len(p) /\ SubSeq(s, 1, Len(p)) = p

StartsWithAny(s, ps) == \E p \in ps : StartsWith(s, p)

\* str.find: the first index (1-based) at which sub occurs in s, 0 if none
Find(s, sub) ==
    LET hits == {i \in 1..(Len(s) - Len(sub) + 1) : SubSeq(s, i, i + Len(sub) - 1) = sub}
    IN IF hits = {} THEN 0 ELSE CHOOSE i \in hits : \A j \in hits : i <= j

Contains(s, sub) == sub = <<>> \/ Find(s, sub) # 0

\* str.split() with no argument: the maximal runs of non-whitespace
RECURSIVE SplitWs(_, _, _)
SplitWs(s, cur, acc) ==
    IF s = <<>> THEN (IF cur = <<>> THEN acc ELSE Append(acc, cur))
    ELSE IF Head(s) \in Whitespace
         THEN SplitWs(Tail(s), <<>>, IF cur = <<>> THEN acc ELSE Append(acc, cur))
         ELSE SplitWs(Tail(s), Append(cur, Head(s)), acc)

Split(s) == SplitWs(s, <<>>, <<>>)

\* str.split(sep) for a non-empty separator
RECURSIVE SplitOn(_, _)
SplitOn(s, sep) ==
    LET i == Find(s, sep)
    IN IF i = 0 THEN <<s>>
       ELSE <<SubSeq(s, 1, i - 1)>> \o SplitOn(SubSeq(s, i + Len(sep), Len(s)), sep)

RECURSIVE Join(_, _)
Join(parts, sep) ==
    IF parts = <<>> THEN <<>>
    ELSE IF Len(parts) = 1 THEN parts[1]
    ELSE parts[1] \o sep \o Join(Tail(parts), sep)

\* bool(s) of a str: the empty string is false
Truthy(s) == s # <<>>

\* Optional[str]
None == [some |-> FALSE, val |-> <<>>]

Some(s) == [some |-> TRUE, val |-> s]

\* the order of the characters that occur in paths (ASCII order)
CharOrder == <<"*", ".", "/", "0", "1", "2", "3", "4", "5", "6", "7", "8", "9", "?",
               "A", "B", "C", "D", "E", "F", "G", "H", "I", "J", "K", "L", "M",
               "N", "O", "P", "Q", "R", "S", "T", "U", "V", "W", "X", "Y", "Z", "_",
               "a", "b", "c", "d", "e", "f", "g", "h", "i", "j", "k", "l", "m",
               "n", "o", "p", "q", "r", "s", "t", "u", "v", "w", "x", "y", "z">>

Ord(c) == CHOOSE i \in 1..Len(CharOrder) : CharOrder[i] = c

RECURSIVE StrLess(_, _)
StrLess(a, b) ==
    IF b = <<>> THEN FALSE
    ELSE IF a = <<>> THEN TRUE
    ELSE IF Head(a) = Head(b) THEN StrLess(Tail(a), Tail(b))
    ELSE Ord(Head(a)) < Ord(Head(b))

\* sorted(list of str): insertion into an ascending sequence
RECURSIVE InsertSorted(_, _)
InsertSorted(sorted, x) ==
    IF sorted = <<>> THEN <<x>>
    ELSE IF StrLess(x, Head(sorted)) THEN <<x>> \o sorted
    ELSE <<Head(sorted)>> \o InsertSorted(Tail(sorted), x)

RECURSIVE Sorted(_)
Sorted(xs) ==
    IF xs = <<>> THEN <<>> ELSE InsertSorted(Sorted(Tail(xs)), Head(xs))

\* fnmatch.fnmatch on POSIX for patterns made of literals, * and ?
RECURSIVE FnMatch(_, _)
FnMatch(name, pat) ==
    IF pat = <<>> THEN name = <<>>
    ELSE IF Head(pat) = "*"
         THEN FnMatch(name, Tail(pat)) \/ (name # <<>> /\ FnMatch(Tail(name), pat))
    ELSE IF name = <<>> THEN FALSE
    ELSE IF Head(pat) = "?" THEN FnMatch(Tail(name), Tail(pat))
    ELSE Head(pat) = Head(name) /\ FnMatch(Tail(name), Tail(pat))

\* str(n) of a natural number
DigitChars == <<"0", "1", "2", "3", "4", "5", "6", "7", "8", "9">>

RECURSIVE IntToStr(_)
IntToStr(n) ==
    IF n < 10 THEN <<DigitChars[n + 1]>>
    ELSE Append(IntToStr(n \div 10), DigitChars[(n % 10) + 1])

\* format(s, ">8"): right-align in a field of eight characters
RECURSIVE RightAlign8(_)
RightAlign8(s) == IF Len(s) >= 8 THEN s ELSE RightAlign8(<<" ">> \o s)

\* ------------------------------------------------- repository accessor
\* One cached, read-only repository view: the paths list_files() returns,
\* and per path (same index) the content and the size in the metadata
\* (NoMetadata when get_file_metadata returns nothing).  raises holds the
\* accessor methods that raise when called, error the text of the exception.
NoMetadata == -1

MainPy == <<"s", "r", "c", "/", "m", "a", "i", "n", ".", "p", "y">>

EmptyTxt == <<"e", "m", "p", "t", "y", ".", "t", "x", "t">>

MainPyContent == <<"p", "r", "i", "n", "t", "(", "'", "h", "i", "'", ")">>

AppPy == <<"s", "r", "c", "/", "a", "p", "p", ".", "p", "y">>

ReadmeMd == <<"R", "E", "A", "D", "M", "E", ".", "m", "d">>

AppPyContent == <<"i", "m", "p", "o", "r", "t", " ", "o", "s", "\n", "\n", "#", " ", "T", "O", "D", "O", " ", "f", "i", "x", " ", "t", "h", "i", "s", "\n", "x", " ", "=", " ", "1">>

ReadmeMdContent == <<"d", "e", "m", "o">>

AccessorError == <<"connection lost">>

RepoMain == [files |-> <<MainPy, EmptyTxt>>,
             contents |-> <<MainPyContent, <<>> >>,
             sizes |-> <<11, NoMetadata>>,
             raises |-> {}, error |-> AccessorError]

RepoEmpty == [files |-> <<>>, contents |-> <<>>, sizes |-> <<>>,
              raises |-> {}, error |-> AccessorError]

RepoApp == [files |-> <<AppPy, ReadmeMd>>,
            contents |-> <<AppPyContent, ReadmeMdContent>>,
            sizes |-> <<32, 4>>,
            raises |-> {}, error |-> AccessorError]

AccessorMethods == {"list_files", "get_file_content", "get_file_metadata"}

\* the same repository behind an accessor whose methods in raises fail
Failing(repo, raises) == [repo EXCEPT !.raises = raises]

Repos == {RepoMain, RepoEmpty}

ConverterRepos ==
    {RepoMain, RepoEmpty, RepoApp, Failing(RepoApp, AccessorMethods),
     Failing(RepoApp, {"get_file_metadata"}), Failing(RepoApp, {"get_file_content"})}

Raises(repo, method) == method \in repo.raises

IndexOf(repo, path) ==
    IF \E i \in 1..Len(repo.files) : repo.files[i] = path
    THEN CHOOSE i \in 1..Len(repo.files) : repo.files[i] = path
    ELSE 0

list_files(repo) == repo.files

get_file_content(repo, path) ==
    IF IndexOf(repo, path) = 0 THEN None ELSE Some(repo.contents[IndexOf(repo, path)])

get_file_metadata(repo, path) ==
    IF IndexOf(repo, path) = 0 THEN NoMetadata ELSE repo.sizes[IndexOf(repo, path)]

\* ------------------------------------------------------ command converter
\* `except Exception as e: return f"<prefix>{e}"` in the four handlers that
\* read the repository
ErrorText_Empty(prefix, e) == <<>>

ErrorText(prefix, e) == prefix \o e

ListLine(repo, path) ==
    IF get_file_metadata(repo, path) # NoMetadata
    THEN RightAlign8(IntToStr(get_file_metadata(repo, path))) \o <<" ">> \o path
    ELSE <<" ", " ", " ", " ", " ", " ", " ", " ", "?", " ">> \o path

_handle_list_files_Unsorted(command, repo) ==
    IF Raises(repo, "list_files") THEN ErrorText(<<"Error listing files: ">>, repo.error)
    ELSE IF list_files(repo) = <<>> THEN <<"No files found in repository">>
    ELSE IF Raises(repo, "get_file_metadata")
    THEN ErrorText(<<"Error listing files: ">>, repo.error)
    ELSE LET files == list_files(repo)
         IN Join([i \in 1..Len(files) |-> ListLine(repo, files[i])], <<"\n">>)

_handle_list_files(command, repo) ==
    IF Raises(repo, "list_files") THEN ErrorText(<<"Error listing files: ">>, repo.error)
    ELSE IF list_files(repo) = <<>> THEN <<"No files found in repository">>
    ELSE IF Raises(repo, "get_file_metadata")
    THEN ErrorText(<<"Error listing files: ">>, repo.error)
    ELSE LET files == Sorted(list_files(repo))
         IN Join([i \in 1..Len(files) |-> ListLine(repo, files[i])], <<"\n">>)

_handle_cat_file_NotContent(command, repo) ==
    LET parts == Split(command)
    IN IF Len(parts) < 2 THEN <<"Usage: cat <filename>">>
       ELSE IF Raises(repo, "get_file_content")
       THEN ErrorText(<<"Error reading file: ">>, repo.error)
       ELSE IF ~get_file_content(repo, parts[2]).some \/ get_file_content(repo, parts[2]).val = <<>>
            THEN <<"File not found: ">> \o parts[2]
            ELSE get_file_content(repo, parts[2]).val

_handle_cat_file(command, repo) ==
    LET parts == Split(command)
    IN IF Len(parts) < 2 THEN <<"Usage: cat <filename>">>
       ELSE IF Raises(repo, "get_file_content")
       THEN ErrorText(<<"Error reading file: ">>, repo.error)
       ELSE IF ~get_file_content(repo, parts[2]).some
            THEN <<"File not found: ">> \o parts[2]
            ELSE get_file_content(repo, parts[2]).val

NameFlag == <<"-", "n", "a", "m", "e">>

Quotes == {"\"", "'"}

_handle_find_files(command, repo) ==
    LET files == list_files(repo)
        parts == SplitOn(command, NameFlag)
        pattern == StripSet(Strip(parts[2]), Quotes)
        kept == IF Contains(command, NameFlag) /\ Len(parts) > 1
                THEN SelectSeq(files, LAMBDA f : FnMatch(f, pattern))
                ELSE files
    IN IF Raises(repo, "list_files") THEN ErrorText(<<"Error finding files: ">>, repo.error)
       ELSE Join(Sorted(kept), <<"\n">>)

\* the matching lines among lines[n..], as "path:line_number:line"
RECURSIVE GrepLines(_, _, _, _)
GrepLines(path, lines, n, pattern) ==
    IF n > Len(lines) THEN <<>>
    ELSE IF Contains(lines[n], pattern)
         THEN <<path \o <<":">> \o IntToStr(n) \o <<":">> \o lines[n]>>
              \o GrepLines(path, lines, n + 1, pattern)
         ELSE GrepLines(path, lines, n + 1, pattern)

GrepFile(repo, path, pattern) ==
    IF get_file_content(repo, path).some /\ Truthy(get_file_content(repo, path).val)
    THEN GrepLines(path, SplitOn(get_file_content(repo, path).val, <<"\n">>), 1, pattern)
    ELSE <<>>

RECURSIVE GrepFiles(_, _, _)
GrepFiles(repo, paths, pattern) ==
    IF paths = <<>> THEN <<>>
    ELSE GrepFile(repo, Head(paths), pattern) \o GrepFiles(repo, Tail(paths), pattern)

_handle_grep_files(command, repo) ==
    LET parts == Split(command)
        pattern == StripSet(parts[2], Quotes)
        files_to_search == IF Len(parts) > 2 THEN SubSeq(parts, 3, Len(parts)) ELSE list_files(repo)
        results == GrepFiles(repo, files_to_search, pattern)
    IN IF Len(parts) < 2 THEN <<"Usage: grep <pattern> [files...]">>
       ELSE IF Len(parts) <= 2 /\ Raises(repo, "list_files")
       THEN ErrorText(<<"Error searching files: ">>, repo.error)
       ELSE IF files_to_search # <<>> /\ Raises(repo, "get_file_content")
       THEN ErrorText(<<"Error searching files: ">>, repo.error)
       ELSE IF results # <<>> THEN Join(results, <<"\n">>)
       ELSE <<"Pattern '">> \o pattern \o <<"' not found">>

_handle_git_command_NoCommand(command) ==
    <<"Git operations are not supported in web mode. Command blocked: ">>

_handle_git_command(command) ==
    <<"Git operations are not supported in web mode. Command blocked: ">> \o command

_handle_mkdir(command) == <<"Directory creation is handled automatically in web mode.">>

_handle_touch(command) == <<"File creation is handled automatically in web mode.">>

_handle_rm_Echo(command) == <<"Removed: ">> \o command

_handle_rm(command) == <<"File deletion is not supported in web mode for safety.">>

_handle_copy(command) == <<"File copying is not supported in web mode.">>

_handle_move(command) == <<"File moving is not supported in web mode.">>

_convert_shell_command(rawCommand, repo) ==
    LET command == Strip(rawCommand)
    IN IF StartsWith(command, <<"l", "s">>) \/ StartsWith(command, <<"d", "i", "r">>)
       THEN Some(_handle_list_files(command, repo))
       ELSE IF StartsWith(command, <<"c", "a", "t">>) \/ StartsWith(command, <<"t", "y", "p", "e">>)
       THEN Some(_handle_cat_file(command, repo))
       ELSE IF StartsWith(command, <<"f", "i", "n", "d">>)
       THEN Some(_handle_find_files(command, repo))
       ELSE IF StartsWith(command, <<"g", "r", "e", "p">>)
       THEN Some(_handle_grep_files(command, repo))
       ELSE IF StartsWith(command, <<"g", "i", "t">>)
       THEN Some(_handle_git_command(command))
       ELSE IF StartsWith(command, <<"m", "k", "d", "i", "r">>)
       THEN Some(_handle_mkdir(command))
       ELSE IF StartsWith(command, <<"t", "o", "u", "c", "h">>)
       THEN Some(_handle_touch(command))
       ELSE IF StartsWith(command, <<"r", "m">>)
       THEN Some(_handle_rm(command))
       ELSE IF StartsWith(command, <<"c", "p">>) \/ StartsWith(command, <<"c", "o", "p", "y">>)
       THEN Some(_handle_copy(command))
       ELSE IF StartsWith(command, <<"m", "v">>) \/ StartsWith(command, <<"m", "o", "v", "e">>)
       THEN Some(_handle_move(command))
       ELSE None

\* ------------------------------------------------------ command classifier
_classify_command_type(rawCommand) ==
    LET command == Lower(Strip(rawCommand))
    IN IF StartsWithAny(command, {<<"l", "s">>, <<"d", "i", "r">>, <<"f", "i", "n", "d">>})
       THEN "DIRECTORY_OPERATION"
       ELSE IF StartsWithAny(command, {<<"c", "a", "t">>, <<"t", "y", "p", "e">>,
                                       <<"h", "e", "a", "d">>, <<"t", "a", "i", "l">>,
                                       <<"l", "e", "s", "s">>, <<"m", "o", "r", "e">>})
       THEN "FILE_OPERATION"
       ELSE IF StartsWithAny(command, {<<"g", "r", "e", "p">>, <<"a", "w", "k">>, <<"s", "e", "d">>})
       THEN "SEARCH_OPERATION"
       ELSE IF StartsWith(command, <<"g", "i", "t">>)
       THEN "GIT_OPERATION"
       ELSE IF StartsWithAny(command, {<<"m", "k", "d", "i", "r">>, <<"r", "m", "d", "i", "r">>,
                                       <<"r", "m">>, <<"c", "p">>, <<"m", "v">>,
                                       <<"t", "o", "u", "c", "h">>})
       THEN "FILE_OPERATION"
       ELSE "SHELL_COMMAND"

\* the members of ConversionType that _classify_command_type returns
ClassifierTypes ==
    {"DIRECTORY_OPERATION", "FILE_OPERATION", "SEARCH_OPERATION", "GIT_OPERATION",
     "SHELL_COMMAND"}

_determine_command_priority_CaseSensitive(rawCommand) ==
    LET command == Strip(rawCommand)
    IN IF StartsWithAny(command, {<<"l", "s">>, <<"c", "a", "t">>, <<"g", "r", "e", "p">>,
                                  <<"f", "i", "n", "d">>})
       THEN "HIGH"
       ELSE IF StartsWithAny(command, {<<"g", "i", "t">>, <<"c", "d">>})
       THEN "CRITICAL"
       ELSE IF StartsWithAny(command, {<<"h", "e", "a", "d">>, <<"t", "a", "i", "l">>,
                                       <<"l", "e", "s", "s">>, <<"m", "o", "r", "e">>,
                                       <<"a", "w", "k">>, <<"s", "e", "d">>})
       THEN "LOW"
       ELSE "MEDIUM"

_determine_command_priority(rawCommand) ==
    LET command == Lower(Strip(rawCommand))
    IN IF StartsWithAny(command, {<<"l", "s">>, <<"c", "a", "t">>, <<"g", "r", "e", "p">>,
                                  <<"f", "i", "n", "d">>})
       THEN "HIGH"
       ELSE IF StartsWithAny(command, {<<"g", "i", "t">>, <<"c", "d">>})
       THEN "CRITICAL"
       ELSE IF StartsWithAny(command, {<<"h", "e", "a", "d">>, <<"t", "a", "i", "l">>,
                                       <<"l", "e", "s", "s">>, <<"m", "o", "r", "e">>,
                                       <<"a", "w", "k">>, <<"s", "e", "d">>})
       THEN "LOW"
       ELSE "MEDIUM"

\* -------------------------------------------------------- response filter
\* A response text is a sequence of characters; a character outside ASCII
\* is written "U+XXXX".  \w of a str pattern: letters, digits, underscore,
\* and the letters outside ASCII that occur in the filter's own texts.
Letters == {LowerCase[i] : i \in 1..Len(LowerCase)} \cup {UpperCase[i] : i \in 1..Len(UpperCase)}

Digits == {DigitChars[i] : i \in 1..Len(DigitChars)}

WordChars ==
    Letters \cup Digits \cup {"_", "U+00AA", "U+00E2", "U+00EF", "U+00F0", "U+0152", "U+0161", "U+0178"}

\* re.IGNORECASE: a letter of a pattern matches both of its cases
BothCases(c) ==
    {c} \cup {UpperCase[i] : i \in {j \in 1..Len(LowerCase) : LowerCase[j] = c}}
        \cup {LowerCase[i] : i \in {j \in 1..Len(UpperCase) : UpperCase[j] = c}}

\* the elements of a pattern: one character of a set, or a greedy run of
\* them (+ at least one, * any number)
One(chars) == [chars |-> chars, min |-> 1, many |-> FALSE]

Plus(chars) == [chars |-> chars, min |-> 1, many |-> TRUE]

Star(chars) == [chars |-> chars, min |-> 0, many |-> TRUE]

Word(w) == [i \in 1..Len(w) |-> One(BothCases(w[i]))]

NoMatch == 0

Max(S) == CHOOSE x \in S : \A y \in S : y <= x

\* how many characters from s[i] on belong to chars
RunLength(chars, s, i) ==
    LET stop == CHOOSE j \in i..(Len(s) + 1) :
                    /\ j = Len(s) + 1 \/ s[j] \notin chars
                    /\ \A m \in i..(j - 1) : s[m] \in chars
    IN stop - i

\* the first repeated element of pattern p at or after element k
NextRun(p, k) ==
    CHOOSE j \in k..(Len(p) + 1) :
        /\ j = Len(p) + 1 \/ p[j].many
        /\ \A m \in k..(j - 1) : ~p[m].many

\* re.match of the elements k.. of pattern p at s[i]: the position after the
\* match, or NoMatch; a repeated element takes the longest run that lets the
\* rest of the pattern match
RECURSIVE MatchFrom(_, _, _, _)
MatchFrom(p, k, s, i) ==
    IF k > Len(p) THEN i
    ELSE IF p[k].many
    THEN LET run == RunLength(p[k].chars, s, i)
             fits == {n \in p[k].min..run : MatchFrom(p, k + 1, s, i + n) # NoMatch}
         IN IF fits = {} THEN NoMatch ELSE MatchFrom(p, k + 1, s, i + Max(fits))
    ELSE LET n == NextRun(p, k) - k
         IN IF /\ i + n - 1 <= Len(s)
               /\ \A j \in 0..(n - 1) : s[i + j] \in p[k + j].chars
            THEN MatchFrom(p, k + n, s, i + n)
            ELSE NoMatch

\* the positions of s where pattern p matches
MatchStarts(p, s) ==
    {i \in 1..Len(s) : s[i] \in p[1].chars /\ MatchFrom(p, 1, s, i) # NoMatch}

\* re.search(pattern, text, re.IGNORECASE) is not None
Search(p, s) == MatchStarts(p, s) # {}

Min(S) == CHOOSE x \in S : \A y \in S : x <= y

\* list(re.finditer(pattern, s)): the matches from left to right, each
\* search resumed where the previous match ended
RECURSIVE FindIterFrom(_, _, _, _)
FindIterFrom(p, s, starts, from) ==
    IF {i \in starts : i >= from} = {} THEN <<>>
    ELSE LET i == Min({j \in starts : j >= from})
             end == MatchFrom(p, 1, s, i)
         IN <<[start |-> i, end |-> end]>> \o FindIterFrom(p, s, starts, end)

FindIter(p, s) == FindIterFrom(p, s, MatchStarts(p, s), 1)

\* _initialize_shell_patterns: the patterns of each command type, in order
Patterns_PACKAGE_INSTALL ==
    <<\* pip\s+install\s+[\w\-\[\]\.]+
       Word(<<"p", "i", "p">>) \o <<Plus(Whitespace)>> \o
       Word(<<"i", "n", "s", "t", "a", "l", "l">>) \o <<Plus(Whitespace)>> \o
       <<Plus(WordChars \cup {"-", "[", "]", "."})>>,
       \* npm\s+install\s+[\w\-@/]+
       Word(<<"n", "p", "m">>) \o <<Plus(Whitespace)>> \o
       Word(<<"i", "n", "s", "t", "a", "l", "l">>) \o <<Plus(Whitespace)>> \o
       <<Plus(WordChars \cup {"-", "@", "/"})>>,
       \* yarn\s+add\s+[\w\-@/]+
       Word(<<"y", "a", "r", "n">>) \o <<Plus(Whitespace)>> \o Word(<<"a", "d", "d">>) \o
       <<Plus(Whitespace)>> \o <<Plus(WordChars \cup {"-", "@", "/"})>>,
       \* apt\s+install\s+[\w\-]+
       Word(<<"a", "p", "t">>) \o <<Plus(Whitespace)>> \o
       Word(<<"i", "n", "s", "t", "a", "l", "l">>) \o <<Plus(Whitespace)>> \o
       <<Plus(WordChars \cup {"-"})>>,
       \* brew\s+install\s+[\w\-]+
       Word(<<"b", "r", "e", "w">>) \o <<Plus(Whitespace)>> \o
       Word(<<"i", "n", "s", "t", "a", "l", "l">>) \o <<Plus(Whitespace)>> \o
       <<Plus(WordChars \cup {"-"})>>,
       \* conda\s+install\s+[\w\-]+
       Word(<<"c", "o", "n", "d", "a">>) \o <<Plus(Whitespace)>> \o
       Word(<<"i", "n", "s", "t", "a", "l", "l">>) \o <<Plus(Whitespace)>> \o
       <<Plus(WordChars \cup {"-"})>>,
       \* poetry\s+add\s+[\w\-]+
       Word(<<"p", "o", "e", "t", "r", "y">>) \o <<Plus(Whitespace)>> \o
       Word(<<"a", "d", "d">>) \o <<Plus(Whitespace)>> \o <<Plus(WordChars \cup {"-"})>>,
       \* composer\s+install\s+[\w\-/]+
       Word(<<"c", "o", "m", "p", "o", "s", "e", "r">>) \o <<Plus(Whitespace)>> \o
       Word(<<"i", "n", "s", "t", "a", "l", "l">>) \o <<Plus(Whitespace)>> \o
       <<Plus(WordChars \cup {"-", "/"})>>,
       \* gem\s+install\s+[\w\-]+
       Word(<<"g", "e", "m">>) \o <<Plus(Whitespace)>> \o
       Word(<<"i", "n", "s", "t", "a", "l", "l">>) \o <<Plus(Whitespace)>> \o
       <<Plus(WordChars \cup {"-"})>>,
       \* cargo\s+install\s+[\w\-]+
       Word(<<"c", "a", "r", "g", "o">>) \o <<Plus(Whitespace)>> \o
       Word(<<"i", "n", "s", "t", "a", "l", "l">>) \o <<Plus(Whitespace)>> \o
       <<Plus(WordChars \cup {"-"})>> >>

Patterns_FILE_OPERATION ==
    <<\* ls\s+[\-\w\s]*
       Word(<<"l", "s">>) \o <<Plus(Whitespace)>> \o
       <<Star(WordChars \cup Whitespace \cup {"-"})>>,
       \* cat\s+[\w\./\-]+
       Word(<<"c", "a", "t">>) \o <<Plus(Whitespace)>> \o
       <<Plus(WordChars \cup {".", "/", "-"})>>,
       \* grep\s+[\-\w\s"\']+
       Word(<<"g", "r", "e", "p">>) \o <<Plus(Whitespace)>> \o
       <<Plus(WordChars \cup Whitespace \cup {"-", "\"", "'"})>>,
       \* find\s+[\w\./\-\s]+
       Word(<<"f", "i", "n", "d">>) \o <<Plus(Whitespace)>> \o
       <<Plus(WordChars \cup Whitespace \cup {".", "/", "-"})>>,
       \* mkdir\s+[\-\w\s/\.]+
       Word(<<"m", "k", "d", "i", "r">>) \o <<Plus(Whitespace)>> \o
       <<Plus(WordChars \cup Whitespace \cup {"-", "/", "."})>>,
       \* rm\s+[\-\w\s/\.]+
       Word(<<"r", "m">>) \o <<Plus(Whitespace)>> \o
       <<Plus(WordChars \cup Whitespace \cup {"-", "/", "."})>>,
       \* cp\s+[\-\w\s/\.]+
       Word(<<"c", "p">>) \o <<Plus(Whitespace)>> \o
       <<Plus(WordChars \cup Whitespace \cup {"-", "/", "."})>>,
       \* mv\s+[\-\w\s/\.]+
       Word(<<"m", "v">>) \o <<Plus(Whitespace)>> \o
       <<Plus(WordChars \cup Whitespace \cup {"-", "/", "."})>>,
       \* chmod\s+[\d\w\s/\.]+
       Word(<<"c", "h", "m", "o", "d">>) \o <<Plus(Whitespace)>> \o
       <<Plus(Digits \cup WordChars \cup Whitespace \cup {"/", "."})>>,
       \* chown\s+[\w:\s/\.]+
       Word(<<"c", "h", "o", "w", "n">>) \o <<Plus(Whitespace)>> \o
       <<Plus(WordChars \cup Whitespace \cup {":", "/", "."})>>,
       \* touch\s+[\w/\.]+
       Word(<<"t", "o", "u", "c", "h">>) \o <<Plus(Whitespace)>> \o
       <<Plus(WordChars \cup {"/", "."})>>,
       \* head\s+[\-\w\s/\.]+
       Word(<<"h", "e", "a", "d">>) \o <<Plus(Whitespace)>> \o
       <<Plus(WordChars \cup Whitespace \cup {"-", "/", "."})>>,
       \* tail\s+[\-\w\s/\.]+
       Word(<<"t", "a", "i", "l">>) \o <<Plus(Whitespace)>> \o
       <<Plus(WordChars \cup Whitespace \cup {"-", "/", "."})>>,
       \* wc\s+[\-\w\s/\.]+
       Word(<<"w", "c">>) \o <<Plus(Whitespace)>> \o
       <<Plus(WordChars \cup Whitespace \cup {"-", "/", "."})>>,
       \* sort\s+[\-\w\s/\.]+
       Word(<<"s", "o", "r", "t">>) \o <<Plus(Whitespace)>> \o
       <<Plus(WordChars \cup Whitespace \cup {"-", "/", "."})>>,
       \* uniq\s+[\-\w\s/\.]+
       Word(<<"u", "n", "i", "q">>) \o <<Plus(Whitespace)>> \o
       <<Plus(WordChars \cup Whitespace \cup {"-", "/", "."})>> >>

Patterns_GIT_OPERATION ==
    <<\* git\s+clone\s+[\w\-\.:/@]+
       Word(<<"g", "i", "t">>) \o <<Plus(Whitespace)>> \o Word(<<"c", "l", "o", "n", "e">>) \o
       <<Plus(Whitespace)>> \o <<Plus(WordChars \cup {"-", ".", ":", "/", "@"})>>,
       \* git\s+add\s+[\w\./\-\s]+
       Word(<<"g", "i", "t">>) \o <<Plus(Whitespace)>> \o Word(<<"a", "d", "d">>) \o
       <<Plus(Whitespace)>> \o <<Plus(WordChars \cup Whitespace \cup {".", "/", "-"})>>,
       \* git\s+commit\s+[\-\w\s"\']+
       Word(<<"g", "i", "t">>) \o <<Plus(Whitespace)>> \o
       Word(<<"c", "o", "m", "m", "i", "t">>) \o <<Plus(Whitespace)>> \o
       <<Plus(WordChars \cup Whitespace \cup {"-", "\"", "'"})>>,
       \* git\s+push\s+[\w\-\s]*
       Word(<<"g", "i", "t">>) \o <<Plus(Whitespace)>> \o Word(<<"p", "u", "s", "h">>) \o
       <<Plus(Whitespace)>> \o <<Star(WordChars \cup Whitespace \cup {"-"})>>,
       \* git\s+pull\s+[\w\-\s]*
       Word(<<"g", "i", "t">>) \o <<Plus(Whitespace)>> \o Word(<<"p", "u", "l", "l">>) \o
       <<Plus(Whitespace)>> \o <<Star(WordChars \cup Whitespace \cup {"-"})>>,
       \* git\s+checkout\s+[\w\-\s/\.]+
       Word(<<"g", "i", "t">>) \o <<Plus(Whitespace)>> \o
       Word(<<"c", "h", "e", "c", "k", "o", "u", "t">>) \o <<Plus(Whitespace)>> \o
       <<Plus(WordChars \cup Whitespace \cup {"-", "/", "."})>>,
       \* git\s+branch\s+[\w\-\s]*
       Word(<<"g", "i", "t">>) \o <<Plus(Whitespace)>> \o
       Word(<<"b", "r", "a", "n", "c", "h">>) \o <<Plus(Whitespace)>> \o
       <<Star(WordChars \cup Whitespace \cup {"-"})>>,
       \* git\s+merge\s+[\w\-\s/\.]+
       Word(<<"g", "i", "t">>) \o <<Plus(Whitespace)>> \o Word(<<"m", "e", "r", "g", "e">>) \o
       <<Plus(Whitespace)>> \o <<Plus(WordChars \cup Whitespace \cup {"-", "/", "."})>>,
       \* git\s+status
       Word(<<"g", "i", "t">>) \o <<Plus(Whitespace)>> \o Word(<<"s", "t", "a", "t", "u", "s">>),
       \* git\s+log\s+[\-\w\s]*
       Word(<<"g", "i", "t">>) \o <<Plus(Whitespace)>> \o Word(<<"l", "o", "g">>) \o
       <<Plus(Whitespace)>> \o <<Star(WordChars \cup Whitespace \cup {"-"})>>,
       \* git\s+diff\s+[\w\-\s/\.]*
       Word(<<"g", "i", "t">>) \o <<Plus(Whitespace)>> \o Word(<<"d", "i", "f", "f">>) \o
       <<Plus(Whitespace)>> \o <<Star(WordChars \cup Whitespace \cup {"-", "/", "."})>>,
       \* git\s+reset\s+[\-\w\s/\.]+
       Word(<<"g", "i", "t">>) \o <<Plus(Whitespace)>> \o Word(<<"r", "e", "s", "e", "t">>) \o
       <<Plus(Whitespace)>> \o <<Plus(WordChars \cup Whitespace \cup {"-", "/", "."})>>,
       \* git\s+rebase\s+[\w\-\s/\.]+
       Word(<<"g", "i", "t">>) \o <<Plus(Whitespace)>> \o
       Word(<<"r", "e", "b", "a", "s", "e">>) \o <<Plus(Whitespace)>> \o
       <<Plus(WordChars \cup Whitespace \cup {"-", "/", "."})>> >>

Patterns_SYSTEM_COMMAND ==
    <<\* sudo\s+[\w\-\s/\.]+
       Word(<<"s", "u", "d", "o">>) \o <<Plus(Whitespace)>> \o
       <<Plus(WordChars \cup Whitespace \cup {"-", "/", "."})>>,
       \* ps\s+[\-\w\s]*
       Word(<<"p", "s">>) \o <<Plus(Whitespace)>> \o
       <<Star(WordChars \cup Whitespace \cup {"-"})>>,
       \* kill\s+[\-\d\w\s]+
       Word(<<"k", "i", "l", "l">>) \o <<Plus(Whitespace)>> \o
       <<Plus(Digits \cup WordChars \cup Whitespace \cup {"-"})>>,
       \* killall\s+[\w\-]+
       Word(<<"k", "i", "l", "l", "a", "l", "l">>) \o <<Plus(Whitespace)>> \o
       <<Plus(WordChars \cup {"-"})>>,
       \* top\s*
       Word(<<"t", "o", "p">>) \o <<Star(Whitespace)>>,
       \* htop\s*
       Word(<<"h", "t", "o", "p">>) \o <<Star(Whitespace)>>,
       \* df\s+[\-\w\s]*
       Word(<<"d", "f">>) \o <<Plus(Whitespace)>> \o
       <<Star(WordChars \cup Whitespace \cup {"-"})>>,
       \* du\s+[\-\w\s/\.]*
       Word(<<"d", "u">>) \o <<Plus(Whitespace)>> \o
       <<Star(WordChars \cup Whitespace \cup {"-", "/", "."})>>,
       \* free\s+[\-\w\s]*
       Word(<<"f", "r", "e", "e">>) \o <<Plus(Whitespace)>> \o
       <<Star(WordChars \cup Whitespace \cup {"-"})>>,
       \* uname\s+[\-\w\s]*
       Word(<<"u", "n", "a", "m", "e">>) \o <<Plus(Whitespace)>> \o
       <<Star(WordChars \cup Whitespace \cup {"-"})>>,
       \* whoami\s*
       Word(<<"w", "h", "o", "a", "m", "i">>) \o <<Star(Whitespace)>>,
       \* id\s*
       Word(<<"i", "d">>) \o <<Star(Whitespace)>>,
       \* which\s+[\w\-]+
       Word(<<"w", "h", "i", "c", "h">>) \o <<Plus(Whitespace)>> \o
       <<Plus(WordChars \cup {"-"})>>,
       \* whereis\s+[\w\-]+
       Word(<<"w", "h", "e", "r", "e", "i", "s">>) \o <<Plus(Whitespace)>> \o
       <<Plus(WordChars \cup {"-"})>>,
       \* locate\s+[\w\-/\.]+
       Word(<<"l", "o", "c", "a", "t", "e">>) \o <<Plus(Whitespace)>> \o
       <<Plus(WordChars \cup {"-", "/", "."})>>,
       \* systemctl\s+[\w\-\s]+
       Word(<<"s", "y", "s", "t", "e", "m", "c", "t", "l">>) \o <<Plus(Whitespace)>> \o
       <<Plus(WordChars \cup Whitespace \cup {"-"})>>,
       \* service\s+[\w\-\s]+
       Word(<<"s", "e", "r", "v", "i", "c", "e">>) \o <<Plus(Whitespace)>> \o
       <<Plus(WordChars \cup Whitespace \cup {"-"})>> >>

Patterns_BUILD_COMMAND ==
    <<\* make\s+[\w\-\s]*
       Word(<<"m", "a", "k", "e">>) \o <<Plus(Whitespace)>> \o
       <<Star(WordChars \cup Whitespace \cup {"-"})>>,
       \* cmake\s+[\w\-\s/\.]+
       Word(<<"c", "m", "a", "k", "e">>) \o <<Plus(Whitespace)>> \o
       <<Plus(WordChars \cup Whitespace \cup {"-", "/", "."})>>,
       \* gcc\s+[\w\-\s/\.]+
       Word(<<"g", "c", "c">>) \o <<Plus(Whitespace)>> \o
       <<Plus(WordChars \cup Whitespace \cup {"-", "/", "."})>>,
       \* g\+\+\s+[\w\-\s/\.]+
       Word(<<"g", "+", "+">>) \o <<Plus(Whitespace)>> \o
       <<Plus(WordChars \cup Whitespace \cup {"-", "/", "."})>>,
       \* javac\s+[\w\-\s/\.]+
       Word(<<"j", "a", "v", "a", "c">>) \o <<Plus(Whitespace)>> \o
       <<Plus(WordChars \cup Whitespace \cup {"-", "/", "."})>>,
       \* java\s+[\w\-\s/\.]+
       Word(<<"j", "a", "v", "a">>) \o <<Plus(Whitespace)>> \o
       <<Plus(WordChars \cup Whitespace \cup {"-", "/", "."})>>,
       \* python\s+[\w\-\s/\.]+
       Word(<<"p", "y", "t", "h", "o", "n">>) \o <<Plus(Whitespace)>> \o
       <<Plus(WordChars \cup Whitespace \cup {"-", "/", "."})>>,
       \* node\s+[\w\-\s/\.]+
       Word(<<"n", "o", "d", "e">>) \o <<Plus(Whitespace)>> \o
       <<Plus(WordChars \cup Whitespace \cup {"-", "/", "."})>>,
       \* go\s+build\s+[\w\-\s/\.]*
       Word(<<"g", "o">>) \o <<Plus(Whitespace)>> \o Word(<<"b", "u", "i", "l", "d">>) \o
       <<Plus(Whitespace)>> \o <<Star(WordChars \cup Whitespace \cup {"-", "/", "."})>>,
       \* cargo\s+build\s+[\w\-\s]*
       Word(<<"c", "a", "r", "g", "o">>) \o <<Plus(Whitespace)>> \o
       Word(<<"b", "u", "i", "l", "d">>) \o <<Plus(Whitespace)>> \o
       <<Star(WordChars \cup Whitespace \cup {"-"})>>,
       \* mvn\s+[\w\-\s]+
       Word(<<"m", "v", "n">>) \o <<Plus(Whitespace)>> \o
       <<Plus(WordChars \cup Whitespace \cup {"-"})>>,
       \* gradle\s+[\w\-\s]+
       Word(<<"g", "r", "a", "d", "l", "e">>) \o <<Plus(Whitespace)>> \o
       <<Plus(WordChars \cup Whitespace \cup {"-"})>>,
       \* ant\s+[\w\-\s]*
       Word(<<"a", "n", "t">>) \o <<Plus(Whitespace)>> \o
       <<Star(WordChars \cup Whitespace \cup {"-"})>> >>

Patterns_TEST_COMMAND ==
    <<\* pytest\s+[\w\-\s/\.]*
       Word(<<"p", "y", "t", "e", "s", "t">>) \o <<Plus(Whitespace)>> \o
       <<Star(WordChars \cup Whitespace \cup {"-", "/", "."})>>,
       \* python\s+\-m\s+pytest\s+[\w\-\s/\.]*
       Word(<<"p", "y", "t", "h", "o", "n">>) \o <<Plus(Whitespace)>> \o Word(<<"-", "m">>) \o
       <<Plus(Whitespace)>> \o Word(<<"p", "y", "t", "e", "s", "t">>) \o <<Plus(Whitespace)>> \o
       <<Star(WordChars \cup Whitespace \cup {"-", "/", "."})>>,
       \* npm\s+test\s*
       Word(<<"n", "p", "m">>) \o <<Plus(Whitespace)>> \o Word(<<"t", "e", "s", "t">>) \o
       <<Star(Whitespace)>>,
       \* yarn\s+test\s*
       Word(<<"y", "a", "r", "n">>) \o <<Plus(Whitespace)>> \o Word(<<"t", "e", "s", "t">>) \o
       <<Star(Whitespace)>>,
       \* jest\s+[\w\-\s/\.]*
       Word(<<"j", "e", "s", "t">>) \o <<Plus(Whitespace)>> \o
       <<Star(WordChars \cup Whitespace \cup {"-", "/", "."})>>,
       \* mocha\s+[\w\-\s/\.]*
       Word(<<"m", "o", "c", "h", "a">>) \o <<Plus(Whitespace)>> \o
       <<Star(WordChars \cup Whitespace \cup {"-", "/", "."})>>,
       \* phpunit\s+[\w\-\s/\.]*
       Word(<<"p", "h", "p", "u", "n", "i", "t">>) \o <<Plus(Whitespace)>> \o
       <<Star(WordChars \cup Whitespace \cup {"-", "/", "."})>>,
       \* rspec\s+[\w\-\s/\.]*
       Word(<<"r", "s", "p", "e", "c">>) \o <<Plus(Whitespace)>> \o
       <<Star(WordChars \cup Whitespace \cup {"-", "/", "."})>>,
       \* go\s+test\s+[\w\-\s/\.]*
       Word(<<"g", "o">>) \o <<Plus(Whitespace)>> \o Word(<<"t", "e", "s", "t">>) \o
       <<Plus(Whitespace)>> \o <<Star(WordChars \cup Whitespace \cup {"-", "/", "."})>>,
       \* cargo\s+test\s+[\w\-\s]*
       Word(<<"c", "a", "r", "g", "o">>) \o <<Plus(Whitespace)>> \o
       Word(<<"t", "e", "s", "t">>) \o <<Plus(Whitespace)>> \o
       <<Star(WordChars \cup Whitespace \cup {"-"})>>,
       \* mvn\s+test\s*
       Word(<<"m", "v", "n">>) \o <<Plus(Whitespace)>> \o Word(<<"t", "e", "s", "t">>) \o
       <<Star(Whitespace)>>,
       \* gradle\s+test\s*
       Word(<<"g", "r", "a", "d", "l", "e">>) \o <<Plus(Whitespace)>> \o
       Word(<<"t", "e", "s", "t">>) \o <<Star(Whitespace)>> >>

Patterns_DEPLOYMENT ==
    <<\* docker\s+[\w\-\s/\.]+
       Word(<<"d", "o", "c", "k", "e", "r">>) \o <<Plus(Whitespace)>> \o
       <<Plus(WordChars \cup Whitespace \cup {"-", "/", "."})>>,
       \* docker\-compose\s+[\w\-\s/\.]+
       Word(<<"d", "o", "c", "k", "e", "r", "-", "c", "o", "m", "p", "o", "s", "e">>) \o
       <<Plus(Whitespace)>> \o <<Plus(WordChars \cup Whitespace \cup {"-", "/", "."})>>,
       \* kubectl\s+[\w\-\s/\.]+
       Word(<<"k", "u", "b", "e", "c", "t", "l">>) \o <<Plus(Whitespace)>> \o
       <<Plus(WordChars \cup Whitespace \cup {"-", "/", "."})>>,
       \* helm\s+[\w\-\s/\.]+
       Word(<<"h", "e", "l", "m">>) \o <<Plus(Whitespace)>> \o
       <<Plus(WordChars \cup Whitespace \cup {"-", "/", "."})>>,
       \* terraform\s+[\w\-\s/\.]+
       Word(<<"t", "e", "r", "r", "a", "f", "o", "r", "m">>) \o <<Plus(Whitespace)>> \o
       <<Plus(WordChars \cup Whitespace \cup {"-", "/", "."})>>,
       \* ansible\s+[\w\-\s/\.]+
       Word(<<"a", "n", "s", "i", "b", "l", "e">>) \o <<Plus(Whitespace)>> \o
       <<Plus(WordChars \cup Whitespace \cup {"-", "/", "."})>>,
       \* ssh\s+[\w\-@\.:]+
       Word(<<"s", "s", "h">>) \o <<Plus(Whitespace)>> \o
       <<Plus(WordChars \cup {"-", "@", ".", ":"})>>,
       \* scp\s+[\w\-@\.:\/\s]+
       Word(<<"s", "c", "p">>) \o <<Plus(Whitespace)>> \o
       <<Plus(WordChars \cup Whitespace \cup {"-", "@", ".", ":", "/"})>>,
       \* rsync\s+[\w\-@\.:\/\s]+
       Word(<<"r", "s", "y", "n", "c">>) \o <<Plus(Whitespace)>> \o
       <<Plus(WordChars \cup Whitespace \cup {"-", "@", ".", ":", "/"})>> >>

Patterns_NETWORK_COMMAND ==
    <<\* curl\s+[\w\-\s/\.:@]+
       Word(<<"c", "u", "r", "l">>) \o <<Plus(Whitespace)>> \o
       <<Plus(WordChars \cup Whitespace \cup {"-", "/", ".", ":", "@"})>>,
       \* wget\s+[\w\-\s/\.:@]+
       Word(<<"w", "g", "e", "t">>) \o <<Plus(Whitespace)>> \o
       <<Plus(WordChars \cup Whitespace \cup {"-", "/", ".", ":", "@"})>>,
       \* ping\s+[\w\-\.]+
       Word(<<"p", "i", "n", "g">>) \o <<Plus(Whitespace)>> \o
       <<Plus(WordChars \cup {"-", "."})>>,
       \* netstat\s+[\-\w\s]*
       Word(<<"n", "e", "t", "s", "t", "a", "t">>) \o <<Plus(Whitespace)>> \o
       <<Star(WordChars \cup Whitespace \cup {"-"})>>,
       \* ss\s+[\-\w\s]*
       Word(<<"s", "s">>) \o <<Plus(Whitespace)>> \o
       <<Star(WordChars \cup Whitespace \cup {"-"})>>,
       \* nslookup\s+[\w\-\.]+
       Word(<<"n", "s", "l", "o", "o", "k", "u", "p">>) \o <<Plus(Whitespace)>> \o
       <<Plus(WordChars \cup {"-", "."})>>,
       \* dig\s+[\w\-\.\s]+
       Word(<<"d", "i", "g">>) \o <<Plus(Whitespace)>> \o
       <<Plus(WordChars \cup Whitespace \cup {"-", "."})>>,
       \* telnet\s+[\w\-\.\s]+
       Word(<<"t", "e", "l", "n", "e", "t">>) \o <<Plus(Whitespace)>> \o
       <<Plus(WordChars \cup Whitespace \cup {"-", "."})>> >>

\* self.shell_patterns, in the order the dictionary is iterated
shell_patterns ==
    <<[command_type |-> "PACKAGE_INSTALL", patterns |-> Patterns_PACKAGE_INSTALL],
      [command_type |-> "FILE_OPERATION", patterns |-> Patterns_FILE_OPERATION],
      [command_type |-> "GIT_OPERATION", patterns |-> Patterns_GIT_OPERATION],
      [command_type |-> "SYSTEM_COMMAND", patterns |-> Patterns_SYSTEM_COMMAND],
      [command_type |-> "BUILD_COMMAND", patterns |-> Patterns_BUILD_COMMAND],
      [command_type |-> "TEST_COMMAND", patterns |-> Patterns_TEST_COMMAND],
      [command_type |-> "DEPLOYMENT", patterns |-> Patterns_DEPLOYMENT],
      [command_type |-> "NETWORK_COMMAND", patterns |-> Patterns_NETWORK_COMMAND]>>

\* _initialize_alternatives: the text put in the place of a match
Alternative_PACKAGE_INSTALL ==
    <<"U+00F0", "U+0178", "U+201C", "U+00A6", " ", "*", "*", "P", "a", "c", "k", "a", "g", "e",
      " ", "I", "n", "s", "t", "a", "l", "l", "a", "t", "i", "o", "n", " ", "R", "e", "q", "u",
      "i", "r", "e", "d", "*", "*", "\n", "\n", "T", "h", "i", "s", " ", "o", "p", "e", "r",
      "a", "t", "i", "o", "n", " ", "r", "e", "q", "u", "i", "r", "e", "s", " ", "m", "a", "n",
      "u", "a", "l", " ", "p", "a", "c", "k", "a", "g", "e", " ", "i", "n", "s", "t", "a", "l",
      "l", "a", "t", "i", "o", "n", " ", "o", "u", "t", "s", "i", "d", "e", " ", "t", "h", "i",
      "s", " ", "a", "p", "p", "l", "i", "c", "a", "t", "i", "o", "n", ":", "\n", "U+00E2",
      "U+20AC", "U+00A2", " ", "I", "n", "s", "t", "a", "l", "l", " ", "p", "a", "c", "k", "a",
      "g", "e", "s", " ", "u", "s", "i", "n", "g", " ", "y", "o", "u", "r", " ", "s", "y", "s",
      "t", "e", "m", "'", "s", " ", "p", "a", "c", "k", "a", "g", "e", " ", "m", "a", "n", "a",
      "g", "e", "r", "\n", "U+00E2", "U+20AC", "U+00A2", " ", "U", "s", "e", " ", "p", "i", "p",
      ",", " ", "n", "p", "m", ",", " ", "o", "r", " ", "o", "t", "h", "e", "r", " ", "p", "a",
      "c", "k", "a", "g", "e", " ", "m", "a", "n", "a", "g", "e", "r", "s", " ", "i", "n", " ",
      "y", "o", "u", "r", " ", "t", "e", "r", "m", "i", "n", "a", "l", "\n", "U+00E2", "U+20AC",
      "U+00A2", " ", "C", "o", "n", "t", "a", "c", "t", " ", "y", "o", "u", "r", " ", "s", "y",
      "s", "t", "e", "m", " ", "a", "d", "m", "i", "n", "i", "s", "t", "r", "a", "t", "o", "r",
      " ", "f", "o", "r", " ", "p", "a", "c", "k", "a", "g", "e", " ", "i", "n", "s", "t", "a",
      "l", "l", "a", "t", "i", "o", "n", "\n", "U+00E2", "U+20AC", "U+00A2", " ", "R", "e", "f",
      "e", "r", " ", "t", "o", " ", "t", "h", "e", " ", "p", "r", "o", "j", "e", "c", "t", "'",
      "s", " ", "i", "n", "s", "t", "a", "l", "l", "a", "t", "i", "o", "n", " ", "d", "o", "c",
      "u", "m", "e", "n", "t", "a", "t", "i", "o", "n", "\n", "\n", "*", "*", "S", "e", "c",
      "u", "r", "i", "t", "y", " ", "N", "o", "t", "e", "*", "*", ":", " ", "A", "u", "t", "o",
      "m", "a", "t", "i", "c", " ", "p", "a", "c", "k", "a", "g", "e", " ", "i", "n", "s", "t",
      "a", "l", "l", "a", "t", "i", "o", "n", " ", "h", "a", "s", " ", "b", "e", "e", "n", " ",
      "d", "i", "s", "a", "b", "l", "e", "d", " ", "f", "o", "r", " ", "s", "e", "c", "u", "r",
      "i", "t", "y", " ", "r", "e", "a", "s", "o", "n", "s", ".">>

Alternative_FILE_OPERATION ==
    <<"U+00F0", "U+0178", "U+201C", " ", "*", "*", "F", "i", "l", "e", " ", "O", "p", "e", "r",
      "a", "t", "i", "o", "n", "s", " ", "A", "v", "a", "i", "l", "a", "b", "l", "e", " ", "T",
      "h", "r", "o", "u", "g", "h", " ", "I", "n", "t", "e", "r", "f", "a", "c", "e", "*", "*",
      "\n", "\n", "F", "i", "l", "e", " ", "o", "p", "e", "r", "a", "t", "i", "o", "n", "s",
      " ", "c", "a", "n", " ", "b", "e", " ", "p", "e", "r", "f", "o", "r", "m", "e", "d", " ",
      "t", "h", "r", "o", "u", "g", "h", " ", "t", "h", "e", " ", "w", "e", "b", " ", "i", "n",
      "t", "e", "r", "f", "a", "c", "e", ":", "\n", "U+00E2", "U+20AC", "U+00A2", " ", "U", "s",
      "e", " ", "t", "h", "e", " ", "f", "i", "l", "e", " ", "b", "r", "o", "w", "s", "e", "r",
      " ", "t", "o", " ", "n", "a", "v", "i", "g", "a", "t", "e", " ", "a", "n", "d", " ", "v",
      "i", "e", "w", " ", "f", "i", "l", "e", "s", "\n", "U+00E2", "U+20AC", "U+00A2", " ", "U",
      "p", "l", "o", "a", "d", " ", "f", "i", "l", "e", "s", " ", "d", "i", "r", "e", "c", "t",
      "l", "y", " ", "t", "h", "r", "o", "u", "g", "h", " ", "t", "h", "e", " ", "i", "n", "t",
      "e", "r", "f", "a", "c", "e", "\n", "U+00E2", "U+20AC", "U+00A2", " ", "U", "s", "e", " ",
      "t", "h", "e", " ", "s", "e", "c", "u", "r", "e", " ", "f", "i", "l", "e", " ", "o", "p",
      "e", "r", "a", "t", "i", "o", "n", "s", " ", "A", "P", "I", " ", "f", "o", "r", " ", "p",
      "r", "o", "g", "r", "a", "m", "m", "a", "t", "i", "c", " ", "a", "c", "c", "e", "s", "s",
      "\n", "U+00E2", "U+20AC", "U+00A2", " ", "V", "i", "e", "w", " ", "f", "i", "l", "e", " ",
      "c", "o", "n", "t", "e", "n", "t", "s", " ", "t", "h", "r", "o", "u", "g", "h", " ", "t",
      "h", "e", " ", "b", "u", "i", "l", "t", "-", "i", "n", " ", "f", "i", "l", "e", " ", "v",
      "i", "e", "w", "e", "r", "\n", "\n", "*", "*", "S", "e", "c", "u", "r", "i", "t", "y",
      " ", "N", "o", "t", "e", "*", "*", ":", " ", "S", "h", "e", "l", "l", "-", "b", "a", "s",
      "e", "d", " ", "f", "i", "l", "e", " ", "o", "p", "e", "r", "a", "t", "i", "o", "n", "s",
      " ", "h", "a", "v", "e", " ", "b", "e", "e", "n", " ", "d", "i", "s", "a", "b", "l", "e",
      "d", " ", "f", "o", "r", " ", "s", "e", "c", "u", "r", "i", "t", "y", ".">>

Alternative_GIT_OPERATION ==
    <<"U+00F0", "U+0178", "U+201D", "U+00A7", " ", "*", "*", "G", "i", "t", " ", "O", "p", "e",
      "r", "a", "t", "i", "o", "n", "s", " ", "M", "u", "s", "t", " ", "B", "e", " ", "D", "o",
      "n", "e", " ", "M", "a", "n", "u", "a", "l", "l", "y", "*", "*", "\n", "\n", "G", "i",
      "t", " ", "o", "p", "e", "r", "a", "t", "i", "o", "n", "s", " ", "s", "h", "o", "u", "l",
      "d", " ", "b", "e", " ", "p", "e", "r", "f", "o", "r", "m", "e", "d", " ", "o", "u", "t",
      "s", "i", "d", "e", " ", "t", "h", "i", "s", " ", "a", "p", "p", "l", "i", "c", "a", "t",
      "i", "o", "n", ":", "\n", "U+00E2", "U+20AC", "U+00A2", " ", "U", "s", "e", " ", "g", "i",
      "t", " ", "c", "o", "m", "m", "a", "n", "d", "s", " ", "i", "n", " ", "y", "o", "u", "r",
      " ", "l", "o", "c", "a", "l", " ", "t", "e", "r", "m", "i", "n", "a", "l", "\n", "U+00E2",
      "U+20AC", "U+00A2", " ", "U", "s", "e", " ", "y", "o", "u", "r", " ", "p", "r", "e", "f",
      "e", "r", "r", "e", "d", " ", "G", "i", "t", " ", "G", "U", "I", " ", "c", "l", "i", "e",
      "n", "t", "\n", "U+00E2", "U+20AC", "U+00A2", " ", "U", "s", "e", " ", "y", "o", "u", "r",
      " ", "I", "D", "E", "'", "s", " ", "b", "u", "i", "l", "t", "-", "i", "n", " ", "G", "i",
      "t", " ", "i", "n", "t", "e", "g", "r", "a", "t", "i", "o", "n", "\n", "U+00E2", "U+20AC",
      "U+00A2", " ", "U", "s", "e", " ", "w", "e", "b", "-", "b", "a", "s", "e", "d", " ", "G",
      "i", "t", " ", "i", "n", "t", "e", "r", "f", "a", "c", "e", "s", " ", "(", "G", "i", "t",
      "H", "u", "b", ",", " ", "G", "i", "t", "L", "a", "b", ",", " ", "e", "t", "c", ".", ")",
      "\n", "\n", "*", "*", "S", "e", "c", "u", "r", "i", "t", "y", " ", "N", "o", "t", "e",
      "*", "*", ":", " ", "G", "i", "t", " ", "o", "p", "e", "r", "a", "t", "i", "o", "n", "s",
      " ", "t", "h", "r", "o", "u", "g", "h", " ", "s", "h", "e", "l", "l", " ", "c", "o", "m",
      "m", "a", "n", "d", "s", " ", "h", "a", "v", "e", " ", "b", "e", "e", "n", " ", "d", "i",
      "s", "a", "b", "l", "e", "d", ".">>

Alternative_SYSTEM_COMMAND ==
    <<"U+00E2", "U+0161", "U+2122", "U+00EF", "U+00B8", " ", "*", "*", "S", "y", "s", "t", "e",
      "m", " ", "C", "o", "m", "m", "a", "n", "d", "s", " ", "N", "o", "t", " ", "A", "v", "a",
      "i", "l", "a", "b", "l", "e", "*", "*", "\n", "\n", "S", "y", "s", "t", "e", "m", " ",
      "c", "o", "m", "m", "a", "n", "d", "s", " ", "c", "a", "n", "n", "o", "t", " ", "b", "e",
      " ", "e", "x", "e", "c", "u", "t", "e", "d", " ", "t", "h", "r", "o", "u", "g", "h", " ",
      "t", "h", "i", "s", " ", "i", "n", "t", "e", "r", "f", "a", "c", "e", ":", "\n", "U+00E2",
      "U+20AC", "U+00A2", " ", "U", "s", "e", " ", "y", "o", "u", "r", " ", "s", "y", "s", "t",
      "e", "m", "'", "s", " ", "t", "e", "r", "m", "i", "n", "a", "l", " ", "f", "o", "r", " ",
      "s", "y", "s", "t", "e", "m", " ", "o", "p", "e", "r", "a", "t", "i", "o", "n", "s", "\n",
      "U+00E2", "U+20AC", "U+00A2", " ", "A", "c", "c", "e", "s", "s", " ", "s", "y", "s", "t",
      "e", "m", " ", "i", "n", "f", "o", "r", "m", "a", "t", "i", "o", "n", " ", "t", "h", "r",
      "o", "u", "g", "h", " ", "d", "e", "d", "i", "c", "a", "t", "e", "d", " ", "t", "o", "o",
      "l", "s", "\n", "U+00E2", "U+20AC", "U+00A2", " ", "U", "s", "e", " ", "s", "y", "s", "t",
      "e", "m", " ", "m", "o", "n", "i", "t", "o", "r", "i", "n", "g", " ", "a", "p", "p", "l",
      "i", "c", "a", "t", "i", "o", "n", "s", "\n", "U+00E2", "U+20AC", "U+00A2", " ", "C", "o",
      "n", "t", "a", "c", "t", " ", "y", "o", "u", "r", " ", "s", "y", "s", "t", "e", "m", " ",
      "a", "d", "m", "i", "n", "i", "s", "t", "r", "a", "t", "o", "r", " ", "f", "o", "r", " ",
      "s", "y", "s", "t", "e", "m", "-", "l", "e", "v", "e", "l", " ", "t", "a", "s", "k", "s",
      "\n", "\n", "*", "*", "S", "e", "c", "u", "r", "i", "t", "y", " ", "N", "o", "t", "e",
      "*", "*", ":", " ", "S", "y", "s", "t", "e", "m", " ", "c", "o", "m", "m", "a", "n", "d",
      "s", " ", "h", "a", "v", "e", " ", "b", "e", "e", "n", " ", "d", "i", "s", "a", "b", "l",
      "e", "d", " ", "f", "o", "r", " ", "s", "e", "c", "u", "r", "i", "t", "y", " ", "r", "e",
      "a", "s", "o", "n", "s", ".">>

Alternative_BUILD_COMMAND ==
    <<"U+00F0", "U+0178", "U+201D", "U+00A8", " ", "*", "*", "B", "u", "i", "l", "d", " ", "C",
      "o", "m", "m", "a", "n", "d", "s", " ", "M", "u", "s", "t", " ", "B", "e", " ", "R", "u",
      "n", " ", "M", "a", "n", "u", "a", "l", "l", "y", "*", "*", "\n", "\n", "B", "u", "i",
      "l", "d", " ", "o", "p", "e", "r", "a", "t", "i", "o", "n", "s", " ", "s", "h", "o", "u",
      "l", "d", " ", "b", "e", " ", "p", "e", "r", "f", "o", "r", "m", "e", "d", " ", "o", "u",
      "t", "s", "i", "d", "e", " ", "t", "h", "i", "s", " ", "a", "p", "p", "l", "i", "c", "a",
      "t", "i", "o", "n", ":", "\n", "U+00E2", "U+20AC", "U+00A2", " ", "R", "u", "n", " ", "b",
      "u", "i", "l", "d", " ", "c", "o", "m", "m", "a", "n", "d", "s", " ", "i", "n", " ", "y",
      "o", "u", "r", " ", "l", "o", "c", "a", "l", " ", "d", "e", "v", "e", "l", "o", "p", "m",
      "e", "n", "t", " ", "e", "n", "v", "i", "r", "o", "n", "m", "e", "n", "t", "\n", "U+00E2",
      "U+20AC", "U+00A2", " ", "U", "s", "e", " ", "y", "o", "u", "r", " ", "I", "D", "E", "'",
      "s", " ", "b", "u", "i", "l", "d", " ", "i", "n", "t", "e", "g", "r", "a", "t", "i", "o",
      "n", "\n", "U+00E2", "U+20AC", "U+00A2", " ", "S", "e", "t", " ", "u", "p", " ", "a", "u",
      "t", "o", "m", "a", "t", "e", "d", " ", "b", "u", "i", "l", "d", " ", "p", "i", "p", "e",
      "l", "i", "n", "e", "s", " ", "(", "C", "I", "/", "C", "D", ")", "\n", "U+00E2", "U+20AC",
      "U+00A2", " ", "U", "s", "e", " ", "p", "r", "o", "j", "e", "c", "t", "-", "s", "p", "e",
      "c", "i", "f", "i", "c", " ", "b", "u", "i", "l", "d", " ", "t", "o", "o", "l", "s", " ",
      "d", "i", "r", "e", "c", "t", "l", "y", "\n", "\n", "*", "*", "S", "e", "c", "u", "r",
      "i", "t", "y", " ", "N", "o", "t", "e", "*", "*", ":", " ", "B", "u", "i", "l", "d", " ",
      "c", "o", "m", "m", "a", "n", "d", "s", " ", "h", "a", "v", "e", " ", "b", "e", "e", "n",
      " ", "d", "i", "s", "a", "b", "l", "e", "d", " ", "f", "o", "r", " ", "s", "e", "c", "u",
      "r", "i", "t", "y", ".">>

Alternative_TEST_COMMAND ==
    <<"U+00F0", "U+0178", "U+00A7", "U+00AA", " ", "*", "*", "T", "e", "s", "t", " ", "C", "o",
      "m", "m", "a", "n", "d", "s", " ", "M", "u", "s", "t", " ", "B", "e", " ", "R", "u", "n",
      " ", "M", "a", "n", "u", "a", "l", "l", "y", "*", "*", "\n", "\n", "T", "e", "s", "t",
      " ", "e", "x", "e", "c", "u", "t", "i", "o", "n", " ", "s", "h", "o", "u", "l", "d", " ",
      "b", "e", " ", "p", "e", "r", "f", "o", "r", "m", "e", "d", " ", "o", "u", "t", "s", "i",
      "d", "e", " ", "t", "h", "i", "s", " ", "a", "p", "p", "l", "i", "c", "a", "t", "i", "o",
      "n", ":", "\n", "U+00E2", "U+20AC", "U+00A2", " ", "R", "u", "n", " ", "t", "e", "s", "t",
      "s", " ", "i", "n", " ", "y", "o", "u", "r", " ", "l", "o", "c", "a", "l", " ", "d", "e",
      "v", "e", "l", "o", "p", "m", "e", "n", "t", " ", "e", "n", "v", "i", "r", "o", "n", "m",
      "e", "n", "t", "\n", "U+00E2", "U+20AC", "U+00A2", " ", "U", "s", "e", " ", "y", "o", "u",
      "r", " ", "I", "D", "E", "'", "s", " ", "t", "e", "s", "t", " ", "r", "u", "n", "n", "e",
      "r", " ", "i", "n", "t", "e", "g", "r", "a", "t", "i", "o", "n", "\n", "U+00E2", "U+20AC",
      "U+00A2", " ", "S", "e", "t", " ", "u", "p", " ", "a", "u", "t", "o", "m", "a", "t", "e",
      "d", " ", "t", "e", "s", "t", "i", "n", "g", " ", "i", "n", " ", "C", "I", "/", "C", "D",
      " ", "p", "i", "p", "e", "l", "i", "n", "e", "s", "\n", "U+00E2", "U+20AC", "U+00A2", " ",
      "U", "s", "e", " ", "d", "e", "d", "i", "c", "a", "t", "e", "d", " ", "t", "e", "s", "t",
      "i", "n", "g", " ", "t", "o", "o", "l", "s", " ", "a", "n", "d", " ", "f", "r", "a", "m",
      "e", "w", "o", "r", "k", "s", "\n", "\n", "*", "*", "S", "e", "c", "u", "r", "i", "t",
      "y", " ", "N", "o", "t", "e", "*", "*", ":", " ", "T", "e", "s", "t", " ", "c", "o", "m",
      "m", "a", "n", "d", "s", " ", "h", "a", "v", "e", " ", "b", "e", "e", "n", " ", "d", "i",
      "s", "a", "b", "l", "e", "d", " ", "f", "o", "r", " ", "s", "e", "c", "u", "r", "i", "t",
      "y", ".">>

Alternative_DEPLOYMENT ==
    <<"U+00F0", "U+0178", "U+0161", "U+20AC", " ", "*", "*", "D", "e", "p", "l", "o", "y", "m",
      "e", "n", "t", " ", "C", "o", "m", "m", "a", "n", "d", "s", " ", "N", "o", "t", " ", "A",
      "v", "a", "i", "l", "a", "b", "l", "e", "*", "*", "\n", "\n", "D", "e", "p", "l", "o",
      "y", "m", "e", "n", "t", " ", "o", "p", "e", "r", "a", "t", "i", "o", "n", "s", " ", "s",
      "h", "o", "u", "l", "d", " ", "b", "e", " ", "p", "e", "r", "f", "o", "r", "m", "e", "d",
      " ", "t", "h", "r", "o", "u", "g", "h", " ", "p", "r", "o", "p", "e", "r", " ", "c", "h",
      "a", "n", "n", "e", "l", "s", ":", "\n", "U+00E2", "U+20AC", "U+00A2", " ", "U", "s", "e",
      " ", "d", "e", "d", "i", "c", "a", "t", "e", "d", " ", "d", "e", "p", "l", "o", "y", "m",
      "e", "n", "t", " ", "t", "o", "o", "l", "s", " ", "a", "n", "d", " ", "p", "l", "a", "t",
      "f", "o", "r", "m", "s", "\n", "U+00E2", "U+20AC", "U+00A2", " ", "S", "e", "t", " ", "u",
      "p", " ", "a", "u", "t", "o", "m", "a", "t", "e", "d", " ", "d", "e", "p", "l", "o", "y",
      "m", "e", "n", "t", " ", "p", "i", "p", "e", "l", "i", "n", "e", "s", "\n", "U+00E2",
      "U+20AC", "U+00A2", " ", "U", "s", "e", " ", "c", "o", "n", "t", "a", "i", "n", "e", "r",
      " ", "o", "r", "c", "h", "e", "s", "t", "r", "a", "t", "i", "o", "n", " ", "p", "l", "a",
      "t", "f", "o", "r", "m", "s", " ", "d", "i", "r", "e", "c", "t", "l", "y", "\n", "U+00E2",
      "U+20AC", "U+00A2", " ", "F", "o", "l", "l", "o", "w", " ", "y", "o", "u", "r", " ", "o",
      "r", "g", "a", "n", "i", "z", "a", "t", "i", "o", "n", "'", "s", " ", "d", "e", "p", "l",
      "o", "y", "m", "e", "n", "t", " ", "p", "r", "o", "c", "e", "d", "u", "r", "e", "s", "\n",
      "\n", "*", "*", "S", "e", "c", "u", "r", "i", "t", "y", " ", "N", "o", "t", "e", "*", "*",
      ":", " ", "D", "e", "p", "l", "o", "y", "m", "e", "n", "t", " ", "c", "o", "m", "m", "a",
      "n", "d", "s", " ", "h", "a", "v", "e", " ", "b", "e", "e", "n", " ", "d", "i", "s", "a",
      "b", "l", "e", "d", " ", "f", "o", "r", " ", "s", "e", "c", "u", "r", "i", "t", "y", ".">>

Alternative_NETWORK_COMMAND ==
    <<"U+00F0", "U+0178", "U+0152", " ", "*", "*", "N", "e", "t", "w", "o", "r", "k", " ", "C",
      "o", "m", "m", "a", "n", "d", "s", " ", "N", "o", "t", " ", "A", "v", "a", "i", "l", "a",
      "b", "l", "e", "*", "*", "\n", "\n", "N", "e", "t", "w", "o", "r", "k", " ", "o", "p",
      "e", "r", "a", "t", "i", "o", "n", "s", " ", "s", "h", "o", "u", "l", "d", " ", "b", "e",
      " ", "p", "e", "r", "f", "o", "r", "m", "e", "d", " ", "o", "u", "t", "s", "i", "d", "e",
      " ", "t", "h", "i", "s", " ", "a", "p", "p", "l", "i", "c", "a", "t", "i", "o", "n", ":",
      "\n", "U+00E2", "U+20AC", "U+00A2", " ", "U", "s", "e", " ", "n", "e", "t", "w", "o", "r",
      "k", " ", "t", "o", "o", "l", "s", " ", "i", "n", " ", "y", "o", "u", "r", " ", "l", "o",
      "c", "a", "l", " ", "t", "e", "r", "m", "i", "n", "a", "l", "\n", "U+00E2", "U+20AC",
      "U+00A2", " ", "U", "s", "e", " ", "w", "e", "b", "-", "b", "a", "s", "e", "d", " ", "n",
      "e", "t", "w", "o", "r", "k", " ", "t", "e", "s", "t", "i", "n", "g", " ", "t", "o", "o",
      "l", "s", "\n", "U+00E2", "U+20AC", "U+00A2", " ", "U", "s", "e", " ", "d", "e", "d", "i",
      "c", "a", "t", "e", "d", " ", "n", "e", "t", "w", "o", "r", "k", " ", "m", "o", "n", "i",
      "t", "o", "r", "i", "n", "g", " ", "a", "p", "p", "l", "i", "c", "a", "t", "i", "o", "n",
      "s", "\n", "U+00E2", "U+20AC", "U+00A2", " ", "C", "o", "n", "t", "a", "c", "t", " ", "y",
      "o", "u", "r", " ", "n", "e", "t", "w", "o", "r", "k", " ", "a", "d", "m", "i", "n", "i",
      "s", "t", "r", "a", "t", "o", "r", " ", "f", "o", "r", " ", "n", "e", "t", "w", "o", "r",
      "k", " ", "t", "a", "s", "k", "s", "\n", "\n", "*", "*", "S", "e", "c", "u", "r", "i",
      "t", "y", " ", "N", "o", "t", "e", "*", "*", ":", " ", "N", "e", "t", "w", "o", "r", "k",
      " ", "c", "o", "m", "m", "a", "n", "d", "s", " ", "h", "a", "v", "e", " ", "b", "e", "e",
      "n", " ", "d", "i", "s", "a", "b", "l", "e", "d", " ", "f", "o", "r", " ", "s", "e", "c",
      "u", "r", "i", "t", "y", ".">>

\* self.alternative_suggestions[command_type]
alternative_suggestions(command_type) ==
    CASE command_type = "PACKAGE_INSTALL" -> Alternative_PACKAGE_INSTALL
      [] command_type = "FILE_OPERATION" -> Alternative_FILE_OPERATION
      [] command_type = "GIT_OPERATION" -> Alternative_GIT_OPERATION
      [] command_type = "SYSTEM_COMMAND" -> Alternative_SYSTEM_COMMAND
      [] command_type = "BUILD_COMMAND" -> Alternative_BUILD_COMMAND
      [] command_type = "TEST_COMMAND" -> Alternative_TEST_COMMAND
      [] command_type = "DEPLOYMENT" -> Alternative_DEPLOYMENT
      [] command_type = "NETWORK_COMMAND" -> Alternative_NETWORK_COMMAND

\* ShellCommandMatch(original_text, command_type, start_pos, end_pos), the
\* positions counted from 0 as in the source
ShellCommandMatch(s, m, command_type) ==
    [original_text |-> SubSeq(s, m.start, m.end - 1),
     command_type |-> command_type,
     start_pos |-> m.start - 1,
     end_pos |-> m.end - 1]

\* the loop over reversed(matches) of filter_response: the matches
\* 1..n of one pattern are replaced from the last to the first
RECURSIVE ReplaceReversed(_, _, _, _)
ReplaceReversed(r, matches, n, command_type) ==
    IF n = 0 THEN r
    ELSE ReplaceReversed(
             [filtered_content |->
                  SubSeq(r.filtered_content, 1, matches[n].start - 1)
                  \o alternative_suggestions(command_type)
                  \o SubSeq(r.filtered_content, matches[n].end, Len(r.filtered_content)),
              commands_filtered |->
                  Append(r.commands_filtered,
                         ShellCommandMatch(r.filtered_content, matches[n], command_type)),
              alternatives_suggested |-> r.alternatives_suggested + 1,
              security_notes_added |-> r.security_notes_added + 1],
             matches, n - 1, command_type)

\* the loop over the patterns k.. of one command type
RECURSIVE SubstitutePatterns(_, _, _, _)
SubstitutePatterns(r, patterns, k, command_type) ==
    IF k > Len(patterns) THEN r
    ELSE LET matches == FindIter(patterns[k], r.filtered_content)
         IN IF matches = <<>> THEN SubstitutePatterns(r, patterns, k + 1, command_type)
            ELSE SubstitutePatterns(ReplaceReversed(r, matches, Len(matches), command_type),
                                    patterns, k + 1, command_type)

\* the loop over the command types t.. of the pattern table
RECURSIVE SubstituteTypes(_, _)
SubstituteTypes(r, t) ==
    IF t > Len(shell_patterns) THEN r
    ELSE SubstituteTypes(SubstitutePatterns(r, shell_patterns[t].patterns, 1,
                                            shell_patterns[t].command_type),
                         t + 1)

\* the members of the enum ShellCommandType
ShellCommandType ==
    {"PACKAGE_INSTALL", "FILE_OPERATION", "GIT_OPERATION", "SYSTEM_COMMAND", "BUILD_COMMAND",
     "TEST_COMMAND", "DEPLOYMENT", "NETWORK_COMMAND"}

\* is_shell_command(text): some pattern of the table is found in text
is_shell_command(text) ==
    \E t \in 1..Len(shell_patterns) :
        \E k \in 1..Len(shell_patterns[t].patterns) : Search(shell_patterns[t].patterns[k], text)

NoType == "None"

\* get_command_type(command): the type of the first pattern found in it
get_command_type(command) ==
    IF ~is_shell_command(command) THEN NoType
    ELSE LET t == Min({u \in 1..Len(shell_patterns) :
                          \E k \in 1..Len(shell_patterns[u].patterns) :
                              Search(shell_patterns[u].patterns[k], command)})
         IN shell_patterns[t].command_type

\* the texts put in the place of a fenced block and of inline code
BlockSecurityMessage ==
    <<"U+0060", "U+0060", "U+0060", "t", "e", "x", "t", "\n", "U+00F0", "U+0178", "U+201D",
      "U+2019", " ", "S", "E", "C", "U", "R", "I", "T", "Y", ":", " ", "S", "h", "e", "l", "l",
      " ", "c", "o", "m", "m", "a", "n", "d", " ", "c", "o", "d", "e", " ", "b", "l", "o", "c",
      "k", " ", "r", "e", "m", "o", "v", "e", "d", " ", "f", "o", "r", " ", "s", "e", "c", "u",
      "r", "i", "t", "y", " ", "r", "e", "a", "s", "o", "n", "s", ".", "\n", "P", "l", "e", "a",
      "s", "e", " ", "p", "e", "r", "f", "o", "r", "m", " ", "t", "h", "e", "s", "e", " ", "o",
      "p", "e", "r", "a", "t", "i", "o", "n", "s", " ", "m", "a", "n", "u", "a", "l", "l", "y",
      " ", "o", "u", "t", "s", "i", "d", "e", " ", "t", "h", "i", "s", " ", "a", "p", "p", "l",
      "i", "c", "a", "t", "i", "o", "n", ".", "\n", "U+0060", "U+0060", "U+0060">>

InlineSecurityMessage ==
    <<"U+0060", "[", "S", "h", "e", "l", "l", " ", "c", "o", "m", "m", "a", "n", "d", " ", "r",
      "e", "m", "o", "v", "e", "d", " ", "f", "o", "r", " ", "s", "e", "c", "u", "r", "i", "t",
      "y", "]", "U+0060">>

\* s holds the text w at position i, letter case ignored
HasAt(s, i, w) ==
    /\ i + Len(w) - 1 <= Len(s)
    /\ \A j \in 1..Len(w) : s[i + j - 1] \in BothCases(w[j])

\* the backquote character
Backquote == "U+0060"

Fence == <<Backquote, Backquote, Backquote>>

\* (?:bash|shell|sh|zsh|fish)? in the order the alternatives are tried
FenceLanguages ==
    << <<"b", "a", "s", "h">>, <<"s", "h", "e", "l", "l">>, <<"s", "h">>, <<"z", "s", "h">>,
       <<"f", "i", "s", "h">>, <<>> >>

\* the position of the group (.*?) of a fence opened at s[i], 0 when no
\* language alternative is followed by a newline
FenceBody(s, i) ==
    IF \E l \in 1..Len(FenceLanguages) : HasAt(s, i + 3, FenceLanguages[l] \o <<"\n">>)
    THEN i + 3 + 1 + Len(FenceLanguages[Min({l \in 1..Len(FenceLanguages) :
                                               HasAt(s, i + 3, FenceLanguages[l] \o <<"\n">>)})])
    ELSE 0

\* the positions from which the closing newline and fence can be read, at or after from
FenceClosings(s, from) == {j \in from..Len(s) : HasAt(s, j, <<"\n">> \o Fence)}

\* code_block_pattern matches at s[i]
IsCodeBlock(s, i) ==
    /\ HasAt(s, i, Fence)
    /\ FenceBody(s, i) # 0
    /\ FenceClosings(s, FenceBody(s, i)) # {}

\* the match of code_block_pattern at s[i]: group is (.*?), the shortest body
CodeBlockAt(s, i) ==
    LET closing == Min(FenceClosings(s, FenceBody(s, i)))
    IN [start |-> i, end |-> closing + 4, group |-> SubSeq(s, FenceBody(s, i), closing - 1)]

RECURSIVE CodeBlocksFrom(_, _)
CodeBlocksFrom(s, from) ==
    LET starts == {i \in from..Len(s) : IsCodeBlock(s, i)}
        block == CodeBlockAt(s, Min(starts))
    IN IF starts = {} THEN <<>> ELSE <<block>> \o CodeBlocksFrom(s, block.end)

\* str.replace(old, new): every occurrence of old, from left to right
RECURSIVE Replace(_, _, _)
Replace(s, old, new) ==
    IF old = <<>> \/ Find(s, old) = 0 THEN s
    ELSE SubSeq(s, 1, Find(s, old) - 1) \o new
         \o Replace(SubSeq(s, Find(s, old) + Len(old), Len(s)), old, new)

\* the loop over the fenced blocks found in the content the pass started with
RECURSIVE FilterBlocks(_, _, _, _)
FilterBlocks(r, s, blocks, n) ==
    IF n > Len(blocks) THEN r
    ELSE IF is_shell_command(blocks[n].group)
    THEN FilterBlocks(
             [filtered_content |->
                  Replace(r.filtered_content, SubSeq(s, blocks[n].start, blocks[n].end - 1),
                          BlockSecurityMessage),
              additional_filtered |->
                  Append(r.additional_filtered,
                         ShellCommandMatch(s, blocks[n], "SYSTEM_COMMAND"))],
             s, blocks, n + 1)
    ELSE FilterBlocks(r, s, blocks, n + 1)

InlineKeywords ==
    {<<"p", "i", "p">>, <<"n", "p", "m">>, <<"g", "i", "t">>, <<"s", "u", "d", "o">>,
     <<"d", "o", "c", "k", "e", "r">>, <<"k", "u", "b", "e", "c", "t", "l">>}

\* the backquotes of s after position i
LaterTicks(s, i) == {j \in (i + 1)..Len(s) : s[j] = Backquote}

\* inline_code_pattern matches at s[i]: a backquote, then up to the next
\* backquote a text that holds one of the keywords
IsInlineCode(s, i) ==
    /\ s[i] = Backquote
    /\ LaterTicks(s, i) # {}
    /\ \E w \in InlineKeywords :
           \E j \in (i + 1)..(Min(LaterTicks(s, i)) - Len(w)) : HasAt(s, j, w)

RECURSIVE InlineCodesFrom(_, _)
InlineCodesFrom(s, from) ==
    LET starts == {i \in from..Len(s) : IsInlineCode(s, i)}
        end == Min(LaterTicks(s, Min(starts))) + 1
    IN IF starts = {} THEN <<>>
       ELSE <<[start |-> Min(starts), end |-> end]>> \o InlineCodesFrom(s, end)

\* the loop over the inline code found in the content left by the block loop
RECURSIVE FilterInline(_, _, _, _)
FilterInline(r, s, codes, n) ==
    IF n > Len(codes) THEN r
    ELSE FilterInline(
             [filtered_content |->
                  Replace(r.filtered_content, SubSeq(s, codes[n].start, codes[n].end - 1),
                          InlineSecurityMessage),
              additional_filtered |->
                  Append(r.additional_filtered,
                         ShellCommandMatch(s, codes[n], "SYSTEM_COMMAND"))],
             s, codes, n + 1)

AfterBlocks(content) ==
    FilterBlocks([filtered_content |-> content, additional_filtered |-> <<>>],
                 content, CodeBlocksFrom(content, 1), 1)

_filter_code_blocks(content) ==
    LET r == AfterBlocks(content)
    IN FilterInline(r, r.filtered_content, InlineCodesFrom(r.filtered_content, 1), 1)

\* the content after the loop over the command types and their patterns
Substituted(content) ==
    SubstituteTypes([filtered_content |-> content, commands_filtered |-> <<>>,
                     alternatives_suggested |-> 0, security_notes_added |-> 0], 1)

filter_response(content) ==
    LET r == Substituted(content)
        blocks == _filter_code_blocks(r.filtered_content)
    IN [filtered_content |-> blocks.filtered_content,
        commands_filtered |-> r.commands_filtered \o blocks.additional_filtered,
        alternatives_suggested |-> r.alternatives_suggested,
        security_notes_added |-> r.security_notes_added]

\* the convenience function filter_shell_commands(content)
filter_shell_commands(content) == filter_response(content).filtered_content

\* ------------------------------------------------------------- commands
CatMain == <<"c", "a", "t", " ", "s", "r", "c", "/", "m", "a", "i", "n", ".", "p", "y">>

CatEmpty == <<"c", "a", "t", " ", "e", "m", "p", "t", "y", ".", "t", "x", "t">>

FindMd == <<"f", "i", "n", "d", " ", "-", "n", "a", "m", "e", " ", "*", ".", "m", "d">>

PipInstall == <<"p", "i", "p", " ", "i", "n", "s", "t", "a", "l", "l", " ", "f", "l", "a", "s", "k">>

GitStatus == <<"g", "i", "t", " ", "s", "t", "a", "t", "u", "s">>

GitUpper == <<" ", "G", "I", "T", " ", "l", "o", "g">>

Ls == <<"l", "s">>

\* the commands a coder issues in the multi-wrapper specification
SessionCommands == {CatMain, PipInstall}

DirCmd == <<"d", "i", "r">>

CatApp == <<"c", "a", "t", " ", "s", "r", "c", "/", "a", "p", "p", ".", "p", "y">>

CatMissing == <<"c", "a", "t", " ", "n", "o", "p", "e", ".", "t", "x", "t">>

CatNoArg == <<"c", "a", "t">>

GrepTodo == <<"g", "r", "e", "p", " ", "T", "O", "D", "O", " ", "s", "r", "c", "/", "a", "p", "p", ".", "p", "y">>

GrepAll == <<"g", "r", "e", "p", " ", "'", "T", "O", "D", "O", "'">>

GrepDot == <<"g", "r", "e", "p", " ", "T", ".", "D", "O", " ", "s", "r", "c", "/", "a", "p", "p", ".", "p", "y">>

GrepQuoted == <<"g", "r", "e", "p", " ", "\"", "f", "i", "x", " ", "i", "t", "\"", " ", "s", "r", "c", "/", "a", "p", "p", ".", "p", "y">>

GrepNoArg == <<"g", "r", "e", "p">>

FindAll == <<"f", "i", "n", "d">>

FindPy ==
    <<"f", "i", "n", "d", " ", ".", " ", "-", "n", "a", "m", "e", " ", "\"", "*", ".", "p", "y", "\"">>

FindPyType ==
    <<"f", "i", "n", "d", " ", ".", " ", "-", "n", "a", "m", "e", " ", "\"", "*", ".", "p", "y", "\"", " ", 
      "-", "t", "y", "p", "e", " ", "f">>

Mkdir == <<"m", "k", "d", "i", "r", " ", "d">>

Touch == <<"t", "o", "u", "c", "h", " ", "s", "r", "c", "/", "a", "p", "p", ".", "p", "y">>

Rm == <<"r", "m", " ", "s", "r", "c", "/", "a", "p", "p", ".", "p", "y">>

Cp == <<"c", "p", " ", "a", " ", "b">>

Copy == <<"c", "o", "p", "y", " ", "a", " ", "b">>

Mv == <<"m", "v", " ", "a", " ", "b">>

Move == <<"m", "o", "v", "e", " ", "a", " ", "b">>

CdSrc == <<"c", "d", " ", "s", "r", "c">>

LsPadded == <<" ", " ", "L", "S", " ", "-", "l", "a", " ">>

HeadApp == <<"h", "e", "a", "d", " ", "s", "r", "c", "/", "a", "p", "p", ".", "p", "y">>

TailApp == <<"t", "a", "i", "l", " ", "s", "r", "c", "/", "a", "p", "p", ".", "p", "y">>

LessApp == <<"l", "e", "s", "s", " ", "s", "r", "c", "/", "a", "p", "p", ".", "p", "y">>

MoreApp == <<"m", "o", "r", "e", " ", "s", "r", "c", "/", "a", "p", "p", ".", "p", "y">>

AwkApp == <<"a", "w", "k", " ", "1", " ", "s", "r", "c", "/", "a", "p", "p", ".", "p", "y">>

SedApp == <<"s", "e", "d", " ", "p", " ", "s", "r", "c", "/", "a", "p", "p", ".", "p", "y">>

\* the commands a coder issues in the single-wrapper specification
GateCommands ==
    {CatMain, CatEmpty, FindMd, PipInstall, GitStatus, GitUpper, Ls, HeadApp, Copy}

\* the commands a coder issues in the converter specification
ConverterCommands ==
    {Ls, DirCmd, CatApp, CatEmpty, CatMissing, CatNoArg, GrepTodo, GrepAll, GrepDot, GrepQuoted, GrepNoArg,
     FindAll, FindPy, FindPyType,
     GitStatus, Mkdir, Touch, Rm, Cp, Copy, Mv, Move, PipInstall}

HelloWorld == <<"h", "e", "l", "l", "o", " ", "w", "o", "r", "l", "d">>

ThenRunGitPush ==
    <<"T", "h", "e", "n", " ", "r", "u", "n", " ", "g", "i", "t", " ", "p", "u", "s", "h", ".">>

UseGitPush == <<"U", "s", "e", " ", "U+0060", "g", "i", "t", " ", "p", "u", "s", "h", "U+0060">>

RunGitPushMain ==
    <<"R", "u", "n", " ", "U+0060", "g", "i", "t", " ", "p", "u", "s", "h", " ", "o", "r", "i", "g", "i", "n", " ", "m", "a", "i", "n", "U+0060", " ", "t", "o", " ", "d", "e", "p", "l", "o", "y">>

\* a fenced bash block holding npm install
NpmBlock ==
    <<"U+0060", "U+0060", "U+0060", "b", "a", "s", "h", "\n", "n", "p", "m", " ", "i", "n", "s", "t", "a", "l", "l", "\n", "U+0060", "U+0060", "U+0060">>

\* a fenced bash block holding pip install flask
PipBlock ==
    <<"U+0060", "U+0060", "U+0060", "b", "a", "s", "h", "\n", "p", "i", "p", " ", "i",
     "n", "s", "t", "a", "l", "l", " ", "f", "l", "a", "s", "k", "\n", "U+0060", "U+0060", "U+0060">>

\* the texts handed to the response filter
FilterContents ==
    {HelloWorld, ThenRunGitPush, UseGitPush, RunGitPushMain, NpmBlock, PipBlock, GitStatus,
     PipInstall, GrepTodo, Ls}

\* the paths offered to add_file_to_context and written through write_text
ContextPaths == {MainPy, AppPy}

WritePaths == {AppPy}

\* ---------------------------------------------------------------- state
VARIABLES
    available,          \* COSMOS_COMPONENTS_AVAILABLE
    run_cmd,            \* run_cmd.run_cmd: Original, or w for w._intercept_shell_command
    wstate,             \* per wrapper: "unborn", "live", "cleaned", "deleted"
    original_run_cmd,   \* per wrapper: _original_run_cmd, NoAttr when never set
    repo_manager,       \* per wrapper: its repository accessor
    session_id,         \* per wrapper: _current_session_id, "unset" when never set
    intercepted,        \* per wrapper: _shell_commands_intercepted
    conversion_status,  \* per wrapper: _conversion_status
    pm,                 \* per wrapper: position of process_message ("idle", "running")
    response,           \* per wrapper: shell_commands_converted of the last CosmosResponse
    ncalls,             \* per wrapper: calls of its _intercept_shell_command so far
    nmsgs,              \* process_message calls started so far
    clock,              \* datetime.now(), advanced by every interception
    tracker_ops,        \* the tracker's ConversionOperation records, by operation id
    tracker_calls,      \* the calls the tracker has received, in order
    context_files,      \* per wrapper: _context_files, as entries [path, is_modified]
    file_modifications, \* per wrapper: the filenames that are keys of _file_modifications
    last,               \* the last command a coder issued and what became of it
    classified,         \* what direct calls of the two classifier methods returned
    content,            \* the text handed to shell_command_filter
    replies             \* what the calls made on content have returned, by method

vars == <<available, run_cmd, wstate, original_run_cmd, repo_manager, session_id,
          intercepted, conversion_status, pm, response, ncalls, nmsgs, clock,
          tracker_ops, tracker_calls, context_files, file_modifications, last,
          classified, content, replies>>

Wrappers == 1..MaxWrappers

Original == 0

NoAttr == -1

SessionIds == {"", "s1"}

InitialStatus == [total_operations |-> 0,
                  converted_operations |-> 0,
                  pending_conversions |-> <<>>,
                  conversion_percentage |-> [num |-> 0, den |-> 1],
                  last_conversion |-> 0]

NoCall == [issuer |-> 0, target |-> 0, command |-> <<>>, converted |-> None,
           code |-> 0, output |-> <<>>, operation_id |-> 0, at |-> 0,
           before |-> InitialStatus, kind |-> "none"]

\* no call made yet
NoReplies == [method \in {} |-> None]

\* the state of the wrappers before the first of them is constructed
InitWrappers ==
    /\ available \in BOOLEAN
    /\ run_cmd = Original
    /\ wstate = [w \in Wrappers |-> "unborn"]
    /\ original_run_cmd = [w \in Wrappers |-> NoAttr]
    /\ repo_manager = [w \in Wrappers |-> RepoEmpty]
    /\ session_id = [w \in Wrappers |-> "unset"]
    /\ intercepted = [w \in Wrappers |-> <<>>]
    /\ conversion_status = [w \in Wrappers |-> InitialStatus]
    /\ pm = [w \in Wrappers |-> "idle"]
    /\ response = [w \in Wrappers |-> <<>>]
    /\ ncalls = [w \in Wrappers |-> 0]
    /\ nmsgs = 0
    /\ clock = 1
    /\ tracker_ops = <<>>
    /\ tracker_calls = <<>>
    /\ context_files = [w \in Wrappers |-> {}]
    /\ file_modifications = [w \in Wrappers |-> {}]
    /\ last = NoCall
    /\ classified = {}

Init ==
    /\ InitWrappers
    /\ content = <<>>
    /\ replies = NoReplies

\* --------------------------------------------------- conversion tracker
\* create_operation stores a record in CREATED and returns its id (the ids
\* are 1, 2, ... in creation order); update_operation sets the status.
create_operation(ops, request) ==
    Append(ops, [operation_type |-> request.operation_type,
                 original_command |-> request.original_command,
                 session_id |-> request.session_id,
                 priority |-> request.priority,
                 status |-> "CREATED",
                 history |-> <<"CREATED">>,
                 web_equivalent_output |-> None])

update_operation(ops, update) ==
    [ops EXCEPT ![update.operation_id] =
        [@ EXCEPT !.status = update.status,
                  !.history = Append(@, update.status),
                  !.web_equivalent_output = update.web_equivalent_output]]

\* ------------------------------------------------------ interception gate
\* The name ConversionStatus in the wrapper module: the dataclass defined
\* there replaces the tracking enum imported under the same name.  These
\* are the attributes the class object has (a dataclass field is a class
\* attribute only when it has a default).
ConversionStatusAttributes == {"last_conversion"}

HasStatusMember_TerminalOnly(name) ==
    name \in ConversionStatusAttributes \cup {"COMPLETED", "FAILED"}

\* ConversionStatus.<name> evaluates without AttributeError
HasStatusMember(name) == name \in ConversionStatusAttributes

TrackingActive_AnyValue(sid) == sid # "unset"

\* hasattr(self, '_current_session_id') and self._current_session_id
TrackingActive(sid) == sid # "unset" /\ sid # ""

ConversionRequest(self, command) ==
    [operation_type |-> _classify_command_type(command),
     original_command |-> command,
     session_id |-> self.session_id,
     priority |-> _determine_command_priority(command)]

\* the three `except Exception` clauses around the tracker calls: does an
\* exception raised inside them leave _intercept_shell_command?
ExceptionEscapes_Uncaught(raised) == raised

ExceptionEscapes(raised) == FALSE

\* `if converted_output:`
ConversionSucceeded(converted_output) ==
    converted_output.some /\ Truthy(converted_output.val)

StatusOnSuccess(st, now) ==
    [st EXCEPT !.converted_operations = @ + 1,
               !.last_conversion = now,
               !.conversion_percentage =
                   [num |-> st.converted_operations + 1, den |-> st.total_operations]]

StatusOnFailure_NoAppend(st, command) == st

StatusOnFailure(st, command) ==
    [st EXCEPT !.pending_conversions = Append(@, command)]

BlockedMessage_NoCommand(command) == <<"Shell command blocked for web safety: ">>

BlockedMessage(command) == <<"Shell command blocked for web safety: ">> \o command

\* the wrapper fields the gate reads and writes
Self(v) == [log |-> intercepted[v], status |-> conversion_status[v],
            session_id |-> session_id[v], repo |-> repo_manager[v]]

\* One call of self._intercept_shell_command(command) at time now, with the
\* tracker in state tracker; fail says which of the three tracker calls
\* raise (a tracker error, or run_until_complete failing).  The result holds
\* the new log, status and tracker state and the returned pair; code is
\* Raised when an exception leaves the call.
Raised == -1

_intercept_shell_command(self, tracker, now, command, fail) ==
    LET log1 == Append(self.log, command)
        st1 == [self.status EXCEPT !.total_operations = @ + 1]
        active == TrackingActive(self.session_id)
        createOk == active /\ ~fail.create
        operation_id == IF createOk THEN Len(tracker.ops) + 1 ELSE 0
        ops1 == IF createOk
                THEN create_operation(tracker.ops, ConversionRequest(self, command))
                ELSE tracker.ops
        calls1 == IF active
                  THEN Append(tracker.calls, [call |-> "create_operation",
                                              operation_id |-> operation_id,
                                              status |-> "CREATED", ok |-> createOk])
                  ELSE tracker.calls
        progressBuilt == createOk /\ HasStatusMember("IN_PROGRESS")
        progressOk == progressBuilt /\ ~fail.progress
        ops2 == IF progressOk
                THEN update_operation(ops1, [operation_id |-> operation_id,
                                             status |-> "IN_PROGRESS",
                                             web_equivalent_output |-> None])
                ELSE ops1
        calls2 == IF progressBuilt
                  THEN Append(calls1, [call |-> "update_operation",
                                       operation_id |-> operation_id,
                                       status |-> "IN_PROGRESS", ok |-> progressOk])
                  ELSE calls1
        raisedAtStart == active /\ ~progressOk
        converted_output == _convert_shell_command(command, self.repo)
        success == ConversionSucceeded(converted_output)
        st2 == IF success THEN StatusOnSuccess(st1, now) ELSE StatusOnFailure(st1, command)
        terminal == IF success THEN "COMPLETED" ELSE "FAILED"
        terminalBuilt == operation_id # 0 /\ HasStatusMember(terminal)
        terminalOk == terminalBuilt /\ ~fail.terminal
        ops3 == IF terminalOk
                THEN update_operation(ops2, [operation_id |-> operation_id,
                                             status |-> terminal,
                                             web_equivalent_output |->
                                                 IF success THEN converted_output ELSE None])
                ELSE ops2
        calls3 == IF terminalBuilt
                  THEN Append(calls2, [call |-> "update_operation",
                                       operation_id |-> operation_id,
                                       status |-> terminal, ok |-> terminalOk])
                  ELSE calls2
        raisedAtEnd == operation_id # 0 /\ ~terminalOk
    IN IF ExceptionEscapes(raisedAtStart)
       THEN [log |-> log1, status |-> st1, ops |-> ops2, calls |-> calls2,
             converted |-> None, operation_id |-> operation_id,
             code |-> Raised, output |-> <<>>]
       ELSE IF ExceptionEscapes(raisedAtEnd)
       THEN [log |-> log1, status |-> st2, ops |-> ops3, calls |-> calls3,
             converted |-> converted_output, operation_id |-> operation_id,
             code |-> Raised, output |-> <<>>]
       ELSE [log |-> log1, status |-> st2, ops |-> ops3, calls |-> calls3,
             converted |-> converted_output, operation_id |-> operation_id,
             code |-> IF success THEN 0 ELSE 1,
             output |-> IF success THEN converted_output.val ELSE BlockedMessage(command)]

FailureModes == [create : BOOLEAN, progress : BOOLEAN, terminal : BOOLEAN]

\* -------------------------------------------------------------- actions
\* CosmosWebWrapper(repo_manager=repo, ...): the wrappers are numbered in
\* the order of their construction.
Create(w, repo) ==
    /\ wstate[w] = "unborn"
    /\ \A u \in Wrappers : u < w => wstate[u] # "unborn"
    /\ wstate' = [wstate EXCEPT ![w] = "live"]
    /\ repo_manager' = [repo_manager EXCEPT ![w] = repo]
    /\ context_files' = [context_files EXCEPT ![w] = {}]
    /\ file_modifications' = [file_modifications EXCEPT ![w] = {}]
    /\ IF available
       THEN /\ original_run_cmd' = [original_run_cmd EXCEPT ![w] = run_cmd]
            /\ run_cmd' = w
       ELSE UNCHANGED <<original_run_cmd, run_cmd>>
    /\ UNCHANGED <<classified, content, replies, available, session_id, intercepted, conversion_status, pm, response,
                   ncalls, nmsgs, clock, tracker_ops, tracker_calls, last>>

set_session_id(w, sid) ==
    /\ wstate[w] = "live"
    /\ pm[w] = "idle"
    /\ session_id' = [session_id EXCEPT ![w] = sid]
    /\ UNCHANGED <<classified, content, replies, context_files, file_modifications, available, run_cmd, wstate, original_run_cmd, repo_manager, intercepted,
                   conversion_status, pm, response, ncalls, nmsgs, clock, tracker_ops,
                   tracker_calls, last>>

ProcessMessageStart_KeepsLog(w) ==
    /\ wstate[w] = "live"
    /\ pm[w] = "idle"
    /\ nmsgs < MaxMessages
    /\ pm' = [pm EXCEPT ![w] = "running"]
    /\ nmsgs' = nmsgs + 1
    /\ UNCHANGED <<classified, content, replies, context_files, file_modifications, available, run_cmd, wstate, original_run_cmd, repo_manager, session_id,
                   intercepted, conversion_status, response, ncalls, clock, tracker_ops,
                   tracker_calls, last>>

\* process_message up to the call of coder.run
ProcessMessageStart(w) ==
    /\ wstate[w] = "live"
    /\ pm[w] = "idle"
    /\ nmsgs < MaxMessages
    /\ intercepted' = [intercepted EXCEPT ![w] = <<>>]
    /\ pm' = [pm EXCEPT ![w] = "running"]
    /\ nmsgs' = nmsgs + 1
    /\ UNCHANGED <<classified, content, replies, context_files, file_modifications, available, run_cmd, wstate, original_run_cmd, repo_manager, session_id,
                   conversion_status, response, ncalls, clock, tracker_ops, tracker_calls,
                   last>>

\* The coder of wrapper w, inside coder.run, runs a shell command through
\* run_cmd.run_cmd, whatever function is installed there at that moment.
CoderRunCmd(w, command, fail) ==
    /\ available
    /\ pm[w] = "running"
    /\ IF run_cmd = Original
       THEN /\ last' = [NoCall EXCEPT !.issuer = w, !.command = command,
                                      !.kind = "executed", !.at = clock]
            /\ UNCHANGED <<intercepted, conversion_status, ncalls, clock, tracker_ops,
                           tracker_calls>>
       ELSE LET v == run_cmd
                r == _intercept_shell_command(Self(v), [ops |-> tracker_ops, calls |-> tracker_calls],
                                              clock, command, fail)
            IN /\ ncalls[v] < MaxCalls
               /\ intercepted' = [intercepted EXCEPT ![v] = r.log]
               /\ conversion_status' = [conversion_status EXCEPT ![v] = r.status]
               /\ ncalls' = [ncalls EXCEPT ![v] = @ + 1]
               /\ clock' = clock + 1
               /\ tracker_ops' = r.ops
               /\ tracker_calls' = r.calls
               /\ last' = [issuer |-> w, target |-> v, command |-> command,
                           converted |-> r.converted, code |-> r.code,
                           output |-> r.output, operation_id |-> r.operation_id,
                           at |-> clock, before |-> conversion_status[v],
                           kind |-> "intercepted"]
    /\ UNCHANGED <<classified, content, replies, context_files, file_modifications, available, run_cmd, wstate, original_run_cmd, repo_manager, session_id,
                   pm, response, nmsgs>>

\* process_message after coder.run has returned: the response is assembled
ProcessMessageFinish(w) ==
    /\ pm[w] = "running"
    /\ response' = [response EXCEPT ![w] = intercepted[w]]
    /\ pm' = [pm EXCEPT ![w] = "idle"]
    /\ UNCHANGED <<classified, content, replies, context_files, file_modifications, available, run_cmd, wstate, original_run_cmd, repo_manager, session_id,
                   intercepted, conversion_status, ncalls, nmsgs, clock, tracker_ops,
                   tracker_calls, last>>

\* _context_files after self._context_files[file_path] = ContextFile(...)
WithContextFile(files, path) ==
    {f \in files : f.path # path} \cup {[path |-> path, is_modified |-> FALSE]}

\* add_file_to_context(file_path): nothing is added when the repository has
\* no metadata for the path or the accessor raises (the method returns False)
add_file_to_context(w, path) ==
    /\ wstate[w] = "live"
    /\ context_files' =
           IF \/ Raises(repo_manager[w], "get_file_metadata")
              \/ get_file_metadata(repo_manager[w], path) = NoMetadata
           THEN context_files
           ELSE [context_files EXCEPT ![w] = WithContextFile(@, path)]
    /\ UNCHANGED <<classified, content, replies, file_modifications, available, run_cmd, wstate, original_run_cmd,
                   repo_manager, session_id, intercepted, conversion_status, pm, response,
                   ncalls, nmsgs, clock, tracker_ops, tracker_calls, last>>

\* _context_files after _track_file_modification(filename, content)
MarkModified(files, filename) ==
    {IF f.path = filename THEN [f EXCEPT !.is_modified = TRUE] ELSE f : f \in files}

\* WebSafeInputOutput.write_text(filename, content), called by the coder
\* inside coder.run: the write is recorded, never performed
write_text(w, filename) ==
    /\ pm[w] = "running"
    /\ file_modifications' = [file_modifications EXCEPT ![w] = @ \cup {filename}]
    /\ context_files' = [context_files EXCEPT ![w] = MarkModified(@, filename)]
    /\ UNCHANGED <<classified, content, replies, available, run_cmd, wstate, original_run_cmd, repo_manager, session_id,
                   intercepted, conversion_status, pm, response, ncalls, nmsgs, clock,
                   tracker_ops, tracker_calls, last>>

\* the body of cleanup(): run_cmd.run_cmd after it
RestoredRunCmd(w) ==
    IF original_run_cmd[w] # NoAttr THEN original_run_cmd[w] ELSE run_cmd

cleanup(w) ==
    /\ wstate[w] = "live"
    /\ pm[w] = "idle"
    /\ run_cmd' = RestoredRunCmd(w)
    /\ wstate' = [wstate EXCEPT ![w] = "cleaned"]
    /\ UNCHANGED <<classified, content, replies, context_files, file_modifications, available, original_run_cmd, repo_manager, session_id, intercepted,
                   conversion_status, pm, response, ncalls, nmsgs, clock, tracker_ops,
                   tracker_calls, last>>

\* w is still referenced through a bound method w._intercept_shell_command
Referenced(w) ==
    \/ run_cmd = w
    \/ \E u \in Wrappers : u # w /\ wstate[u] \in {"live", "cleaned"} /\ original_run_cmd[u] = w

\* __del__: the interpreter collects w once nothing refers to it; cleanup runs again
del(w) ==
    /\ wstate[w] \in {"live", "cleaned"}
    /\ pm[w] = "idle"
    /\ ~Referenced(w)
    /\ run_cmd' = RestoredRunCmd(w)
    /\ wstate' = [wstate EXCEPT ![w] = "deleted"]
    /\ UNCHANGED <<classified, content, replies, context_files, file_modifications, available, original_run_cmd, repo_manager, session_id, intercepted,
                   conversion_status, pm, response, ncalls, nmsgs, clock, tracker_ops,
                   tracker_calls, last>>

\* the fields of the wrappers and of the modules they share
wrapper_fields == <<available, run_cmd, wstate, original_run_cmd, repo_manager, session_id,
                    intercepted, conversion_status, pm, response, ncalls, nmsgs, clock,
                    tracker_ops, tracker_calls, context_files, file_modifications, last>>

\* what w._classify_command_type(command) and
\* w._determine_command_priority(command) return, called at time now
ClassifiedAs_ByLog(w, command, now) ==
    [command |-> command, at |-> now,
     operation_type |-> IF intercepted[w] = <<>> THEN _classify_command_type(command)
                        ELSE "SHELL_COMMAND",
     priority |-> _determine_command_priority(command)]

ClassifiedAs(w, command, now) ==
    [command |-> command, at |-> now,
     operation_type |-> _classify_command_type(command),
     priority |-> _determine_command_priority(command)]

\* the two classifier methods of a live wrapper called directly
Classify(w, command) ==
    /\ wstate[w] = "live"
    /\ Cardinality(classified) < MaxClassifications
    /\ classified' = classified \cup {ClassifiedAs(w, command, clock)}
    /\ UNCHANGED <<wrapper_fields, content, replies>>

\* the variables of the wrappers, which no call of the filter touches
wrapper_vars == <<wrapper_fields, classified>>

\* replies after method has returned reply
WithReply(method, reply) == replies @@ (method :> reply)

\* shell_command_filter.filter_response(content)
FilterResponse ==
    /\ "filter_response" \notin DOMAIN replies
    /\ replies' = WithReply("filter_response", filter_response(content))
    /\ UNCHANGED <<content, wrapper_vars>>

\* shell_command_filter.is_shell_command(content)
IsShellCommand ==
    /\ "is_shell_command" \notin DOMAIN replies
    /\ replies' = WithReply("is_shell_command", is_shell_command(content))
    /\ UNCHANGED <<content, wrapper_vars>>

\* shell_command_filter.get_command_type(content)
GetCommandType ==
    /\ "get_command_type" \notin DOMAIN replies
    /\ replies' = WithReply("get_command_type", get_command_type(content))
    /\ UNCHANGED <<content, wrapper_vars>>

\* ------------------------------------------------------- specifications
\* Spec: one wrapper, every command of GateCommands, tracking on or off,
\* tracker calls failing or not.
Next ==
    \/ \E repo \in Repos : Create(1, repo)
    \/ \E sid \in SessionIds : set_session_id(1, sid)
    \/ ProcessMessageStart(1)
    \/ \E command \in GateCommands, fail \in FailureModes : CoderRunCmd(1, command, fail)
    \/ ProcessMessageFinish(1)
    \/ cleanup(1)
    \/ del(1)

Spec == Init /\ [][Next]_vars

\* SpecSessions: several wrappers created, used and cleaned up in any order.
NoFailure == [create |-> FALSE, progress |-> FALSE, terminal |-> FALSE]

NextSessions ==
    \/ \E w \in Wrappers : Create(w, RepoMain)
    \/ \E w \in Wrappers : ProcessMessageStart(w)
    \/ \E w \in Wrappers, command \in SessionCommands : CoderRunCmd(w, command, NoFailure)
    \/ \E w \in Wrappers : ProcessMessageFinish(w)
    \/ \E w \in Wrappers : cleanup(w)
    \/ \E w \in Wrappers : del(w)

SpecSessions == Init /\ [][NextSessions]_vars

\* SpecConverter: one wrapper over every repository of ConverterRepos, every
\* command of ConverterCommands, context files added and files written.
NextConverter ==
    \/ \E repo \in ConverterRepos : Create(1, repo)
    \/ \E path \in ContextPaths : add_file_to_context(1, path)
    \/ ProcessMessageStart(1)
    \/ \E command \in ConverterCommands : CoderRunCmd(1, command, NoFailure)
    \/ \E filename \in WritePaths : write_text(1, filename)
    \/ ProcessMessageFinish(1)
    \/ cleanup(1)

SpecConverter == Init /\ [][NextConverter]_vars

\* SpecClassifier: one wrapper whose classifier methods are called directly
\* between interceptions, session changes, tracker failures, context-file
\* changes and writes.
ClassifierCommands == {GitUpper, Ls}

NextClassifier ==
    \/ Create(1, RepoMain)
    \/ \E sid \in SessionIds : set_session_id(1, sid)
    \/ add_file_to_context(1, MainPy)
    \/ ProcessMessageStart(1)
    \/ \E command \in ClassifierCommands, fail \in FailureModes : CoderRunCmd(1, command, fail)
    \/ write_text(1, MainPy)
    \/ ProcessMessageFinish(1)
    \/ \E command \in ClassifierCommands : Classify(1, command)

SpecClassifier == Init /\ [][NextClassifier]_vars

\* the commands handed to _determine_command_priority
PriorityCommands ==
    {GitStatus, GitUpper, CdSrc, Ls, LsPadded, CatApp, GrepTodo, FindAll, HeadApp, TailApp,
     LessApp, MoreApp, AwkApp, SedApp, PipInstall, Mkdir}

\* SpecPriority: the classifier methods of one wrapper called directly on
\* every command of PriorityCommands.
NextPriority ==
    \/ Create(1, RepoMain)
    \/ \E command \in PriorityCommands : Classify(1, command)

SpecPriority == Init /\ [][NextPriority]_vars

\* SpecFilter: the response filter, a module-level object no wrapper calls,
\* is given one text of FilterContents and each of its methods is called on it.
InitFilter ==
    /\ InitWrappers
    /\ content \in FilterContents
    /\ replies = NoReplies

NextFilter ==
    \/ FilterResponse
    \/ IsShellCommand
    \/ GetCommandType

SpecFilter == InitFilter /\ [][NextFilter]_vars

\* ---------------------------------------------------------------- claims
Live(w) == wstate[w] = "live"

After(v) == conversion_status[v]

\* C1: while interception is installed and some wrapper has not been cleaned
\* up, run_cmd.run_cmd is an interceptor, and no command a coder issues is
\* passed to the original run_cmd function.
C1_NeverOriginal ==
    /\ (available /\ \E w \in Wrappers : Live(w)) => run_cmd # Original
    /\ last.kind # "executed"

\* C2: a command issued by the coder of wrapper A is handled by A's own
\* _intercept_shell_command (so only A's log, counters and repository are used).
C2_HandledByOwnWrapper ==
    last.kind = "intercepted" => last.target = last.issuer

\* C3: whenever _convert_shell_command returns a non-None string, the empty
\* string included, the gate returns (0, that string), counts one more
\* converted operation, sets last_conversion and leaves pending_conversions alone.
C3_NonNoneIsSuccess ==
    (last.kind = "intercepted" /\ last.converted.some) =>
        /\ last.code = 0
        /\ last.output = last.converted.val
        /\ After(last.target).converted_operations = last.before.converted_operations + 1
        /\ After(last.target).last_conversion = last.at
        /\ After(last.target).pending_conversions = last.before.pending_conversions

\* C4: whenever _convert_shell_command returns None, the gate returns
\* (1, "Shell command blocked for web safety: " + command), appends the command
\* once to pending_conversions, and leaves converted_operations and
\* last_conversion as they were.
C4_NoneIsBlocked ==
    (last.kind = "intercepted" /\ ~last.converted.some) =>
        /\ last.code = 1
        /\ last.output = <<"Shell command blocked for web safety: ">> \o last.command
        /\ After(last.target).pending_conversions =
               Append(last.before.pending_conversions, last.command)
        /\ After(last.target).converted_operations = last.before.converted_operations
        /\ After(last.target).last_conversion = last.before.last_conversion

C4_Witness ==
    /\ last.kind = "intercepted"
    /\ last.command = PipInstall
    /\ ~last.converted.some
    /\ last.code = 1
    /\ PipInstall \in {After(last.target).pending_conversions[i] :
                          i \in 1..Len(After(last.target).pending_conversions)}

\* C5 (as claimed): a command classified as PACKAGE_INSTALL, GIT_OPERATION,
\* SYSTEM_COMMAND, DEPLOYMENT, NETWORK_COMMAND, BUILD_COMMAND or TEST_COMMAND
\* is not converted (None) and the gate returns exit code 1.
UnconvertibleTypes == {"PACKAGE_INSTALL", "GIT_OPERATION", "SYSTEM_COMMAND", "DEPLOYMENT",
                       "NETWORK_COMMAND", "BUILD_COMMAND", "TEST_COMMAND"}

C5_UnconvertibleTypesBlocked ==
    (last.kind = "intercepted" /\ _classify_command_type(last.command) \in UnconvertibleTypes) =>
        (~last.converted.some /\ last.code = 1)

\* C5 (amended): a command of one of the six other types is not converted
\* and gets exit code 1; a GIT_OPERATION command is blocked in that way only
\* when, stripped, it does not begin with lower-case "git"; otherwise the
\* converter returns the git decline message and the gate returns (0, message).
C5_GitDeclinedWithSuccess ==
    last.kind = "intercepted" =>
        /\ _classify_command_type(last.command) \in UnconvertibleTypes \ {"GIT_OPERATION"} =>
               (~last.converted.some /\ last.code = 1)
        /\ _classify_command_type(last.command) = "GIT_OPERATION" =>
               IF StartsWith(Strip(last.command), <<"g", "i", "t">>)
               THEN /\ last.converted =
                           Some(<<"Git operations are not supported in web mode. Command blocked: ">>
                                \o Strip(last.command))
                    /\ last.code = 0
                    /\ last.output = last.converted.val
               ELSE ~last.converted.some /\ last.code = 1

C5_Witness ==
    /\ last.kind = "intercepted"
    /\ last.command = GitStatus
    /\ _classify_command_type(last.command) = "GIT_OPERATION"
    /\ last.code = 0

\* C6: after n calls of a wrapper's _intercept_shell_command (whatever the
\* commands, the tracking session, the tracker failures and the
\* process_message calls in between), total_operations = n and
\* converted_operations + len(pending_conversions) = n.
C6_CountersMatchCalls ==
    \A w \in Wrappers :
        /\ After(w).total_operations = ncalls[w]
        /\ After(w).converted_operations + Len(After(w).pending_conversions) = ncalls[w]

C6_Witness ==
    /\ ncalls[1] >= 2
    /\ After(1).converted_operations >= 1
    /\ Len(After(1).pending_conversions) >= 1
    /\ nmsgs >= 2
    /\ \E i \in 1..Len(tracker_calls) : ~tracker_calls[i].ok

\* C7: in every state conversion_percentage = converted_operations /
\* total_operations * 100, and it is 0 while total_operations is 0.
C7_PercentageIsCurrent ==
    \A w \in Wrappers :
        IF After(w).total_operations = 0
        THEN After(w).conversion_percentage.num = 0
        ELSE After(w).conversion_percentage.num * After(w).total_operations =
                 After(w).converted_operations * After(w).conversion_percentage.den

\* C8: when _intercept_shell_command returns, every ConversionOperation it
\* created in the tracker is COMPLETED or FAILED.
C8_OperationsTerminal ==
    \A i \in 1..Len(tracker_ops) : tracker_ops[i].status \in {"COMPLETED", "FAILED"}

C10_TrackingNeverChangesResult ==
    last.kind = "intercepted" =>
        /\ last.code \in {0, 1}
        /\ \A sid \in {"unset"} \cup SessionIds, fail \in FailureModes :
               LET r == _intercept_shell_command(
                            [log |-> <<>>, status |-> last.before, session_id |-> sid,
                             repo |-> repo_manager[last.target]],
                            [ops |-> <<>>, calls |-> <<>>], last.at, last.command, fail)
               IN /\ r.code = last.code
                  /\ r.output = last.output
                  /\ r.status = After(last.target)

C10_Witness ==
    /\ last.kind = "intercepted"
    /\ TrackingActive(session_id[last.target])
    /\ last.operation_id = 0
    /\ tracker_calls # <<>>
    /\ ~tracker_calls[Len(tracker_calls)].ok
    /\ last.code = 0

\* the repository of the wrapper that handled the last command
LastRepo == repo_manager[last.target]

\* the last command as the converter sees it, and its words
LastCommand == Strip(last.command)

LastParts == Split(LastCommand)

Intercepted == last.kind = "intercepted"

\* an accessor method the handler of the last command calls raises
ListingFails ==
    /\ StartsWith(LastCommand, <<"l", "s">>) \/ StartsWith(LastCommand, <<"d", "i", "r">>)
    /\ \/ "list_files" \in LastRepo.raises
       \/ LastRepo.files # <<>> /\ "get_file_metadata" \in LastRepo.raises

ReadingFails ==
    /\ StartsWith(LastCommand, <<"c", "a", "t">>)
    /\ Len(LastParts) >= 2
    /\ "get_file_content" \in LastRepo.raises

FindingFails ==
    /\ StartsWith(LastCommand, <<"f", "i", "n", "d">>)
    /\ "list_files" \in LastRepo.raises

SearchingFails ==
    /\ StartsWith(LastCommand, <<"g", "r", "e", "p">>)
    /\ Len(LastParts) >= 2
    /\ \/ Len(LastParts) = 2 /\ "list_files" \in LastRepo.raises
       \/ Len(LastParts) = 2 /\ LastRepo.files # <<>> /\ "get_file_content" \in LastRepo.raises
       \/ Len(LastParts) > 2 /\ "get_file_content" \in LastRepo.raises

CountedAsConversion ==
    /\ last.code = 0
    /\ After(last.target).converted_operations = last.before.converted_operations + 1

\* C11: no call of _intercept_shell_command raises, whatever the command and
\* whichever accessor methods raise: it returns exit code 0 or 1 with a
\* non-empty text; an accessor error during ls, cat, find or grep becomes
\* "Error listing files: ...", "Error reading file: ...", "Error finding
\* files: ..." or "Error searching files: ..." with exit code 0, counted as
\* a conversion.
C11_GateNeverRaises ==
    Intercepted =>
        /\ last.code \in {0, 1}
        /\ last.output # <<>>
        /\ ListingFails =>
               /\ last.output = <<"Error listing files: ">> \o LastRepo.error
               /\ CountedAsConversion
        /\ ReadingFails =>
               /\ last.output = <<"Error reading file: ">> \o LastRepo.error
               /\ CountedAsConversion
        /\ FindingFails =>
               /\ last.output = <<"Error finding files: ">> \o LastRepo.error
               /\ CountedAsConversion
        /\ SearchingFails =>
               /\ last.output = <<"Error searching files: ">> \o LastRepo.error
               /\ CountedAsConversion

\* C11 witness: an ls on a repository whose get_file_metadata raises has
\* been answered with the error text and exit code 0
C11_Witness ==
    /\ Intercepted
    /\ last.command = Ls
    /\ LastRepo.raises = {"get_file_metadata"}
    /\ last.output = <<"Error listing files: ", "connection lost">>
    /\ last.code = 0

\* the index of path among the files of the last command's repository, 0 if absent
LastIndex(path) == IndexOf(LastRepo, path)

\* C12: for 'cat <path>' on an accessor that answers, the converter returns
\* exactly "File not found: <path>" when the repository has no content for
\* the path and exactly the stored content when it has; a cat without a
\* filename returns the usage string.
C12_CatReturnsContent ==
    (/\ Intercepted
     /\ StartsWith(LastCommand, <<"c", "a", "t">>)
     /\ "get_file_content" \notin LastRepo.raises) =>
        IF Len(LastParts) < 2
        THEN last.converted = Some(<<"Usage: cat <filename>">>)
        ELSE IF LastIndex(LastParts[2]) = 0
        THEN last.converted = Some(<<"File not found: ">> \o LastParts[2])
        ELSE last.converted = Some(LastRepo.contents[LastIndex(LastParts[2])])

\* C12 witness: 'cat src/app.py' has returned the four stored lines
C12_Witness ==
    /\ Intercepted
    /\ last.command = CatApp
    /\ LastRepo = RepoApp
    /\ last.converted = Some(AppPyContent)
    /\ Len(SplitOn(last.converted.val, <<"\n">>)) = 4

\* the lines of the text the converter returned for the last command
LastLines == SplitOn(last.converted.val, <<"\n">>)

\* a listing line is padding, the size field, a space and the path; paths
\* hold no blanks
SizeField(line) == Split(line)[1]

PathField(line) == Split(line)[2]

Padding(line) == Len(line) - Len(LStripSet(line, {" "}))

ListsFile(line) ==
    /\ Len(Split(line)) = 2
    /\ LStripSet(line, {" "}) = SizeField(line) \o <<" ">> \o PathField(line)
    /\ LastIndex(PathField(line)) # 0
    /\ LET size == LastRepo.sizes[LastIndex(PathField(line))]
       IN IF size = NoMetadata
          THEN SizeField(line) = <<"?">>
          ELSE /\ SizeField(line) = IntToStr(size)
               /\ Padding(line) + Len(SizeField(line)) = 8

\* C13: for a command beginning with ls or dir on a repository with at least
\* one file and an accessor that answers, the converter returns one line per
\* repository file, in ascending path order, each line the size right-aligned
\* in eight columns (or a '?' without metadata), a space and the path; this
\* holds after any earlier commands, context changes and writes.
C13_ListingSortedOnePerFile ==
    (/\ Intercepted
     /\ StartsWith(LastCommand, <<"l", "s">>) \/ StartsWith(LastCommand, <<"d", "i", "r">>)
     /\ LastRepo.files # <<>>
     /\ LastRepo.raises \cap {"list_files", "get_file_metadata"} = {}) =>
        /\ last.converted.some
        /\ last.converted.val # <<>>
        /\ Len(LastLines) = Len(LastRepo.files)
        /\ \A i \in 1..Len(LastLines) : ListsFile(LastLines[i])
        /\ \A i \in 1..Len(LastRepo.files) :
               \E j \in 1..Len(LastLines) : PathField(LastLines[j]) = LastRepo.files[i]
        /\ \A i, j \in 1..Len(LastLines) :
               i < j => StrLess(PathField(LastLines[i]), PathField(LastLines[j]))

\* C13 witness: ls, issued after another command and a recorded write, has
\* listed README.md before src/app.py with their sizes
C13_Witness ==
    /\ Intercepted
    /\ last.command = Ls
    /\ LastRepo = RepoApp
    /\ ncalls[last.target] = 2
    /\ file_modifications[last.target] # {}
    /\ last.converted.val = <<" ", " ", " ", " ", " ", " ", " ", "4", " ", "R", "E", "A", "D", "M", "E", ".", "m", "d", "\n", " ", " ", " ", " ", " ", " ", "3", "2", " ", "s", "r", "c", "/", "a", "p", "p", ".", "p", "y">>

\* the words of a command line as a shell reads them: blanks separate words
\* except inside quotes, and the quotes are removed
RECURSIVE ShellWordsFrom(_, _, _, _)
ShellWordsFrom(s, cur, quote, acc) ==
    IF s = <<>> THEN (IF cur # <<>> THEN Append(acc, cur) ELSE acc)
    ELSE IF quote # ""
    THEN IF Head(s) = quote
         THEN ShellWordsFrom(Tail(s), cur, "", acc)
         ELSE ShellWordsFrom(Tail(s), cur \o <<Head(s)>>, quote, acc)
    ELSE IF Head(s) \in Quotes
    THEN ShellWordsFrom(Tail(s), cur, Head(s), acc)
    ELSE IF Head(s) \in Whitespace
    THEN ShellWordsFrom(Tail(s), <<>>, "", IF cur # <<>> THEN Append(acc, cur) ELSE acc)
    ELSE ShellWordsFrom(Tail(s), cur \o <<Head(s)>>, "", acc)

ShellWords(s) == ShellWordsFrom(s, <<>>, "", <<>>)

LastWords == ShellWords(LastCommand)

\* the pattern of the last grep command and the indexes of the files it
\* searches (those named after the pattern, every file when none is named)
GrepPattern == LastWords[2]

GrepSearched ==
    IF Len(LastWords) > 2
    THEN {i \in 1..Len(LastRepo.files) :
              \E k \in 3..Len(LastWords) : LastWords[k] = LastRepo.files[i]}
    ELSE 1..Len(LastRepo.files)

FileLines(i) ==
    IF LastRepo.contents[i] = <<>> THEN <<>> ELSE SplitOn(LastRepo.contents[i], <<"\n">>)

\* the (file, line number) pairs whose line contains the pattern
GrepMatches ==
    UNION {{<<i, n>> : n \in {k \in 1..Len(FileLines(i)) :
                                   Contains(FileLines(i)[k], GrepPattern)}} :
           i \in GrepSearched}

MatchLine(m) ==
    LastRepo.files[m[1]] \o <<":">> \o IntToStr(m[2]) \o <<":">> \o FileLines(m[1])[m[2]]

\* C14: for 'grep <pattern> [files...]' on an accessor that answers, the
\* converter returns exactly one line 'path:line_number:line_content' for
\* every line of the searched files that contains the pattern as a
\* substring, numbered from 1, and an explicit pattern-not-found message,
\* never empty output, when no line contains it.
C14_GrepSubstringMatches ==
    (/\ Intercepted
     /\ StartsWith(LastCommand, <<"g", "r", "e", "p">>)
     /\ Len(LastWords) >= 2
     /\ LastRepo.raises \cap {"list_files", "get_file_content"} = {}) =>
        /\ last.converted.some
        /\ last.converted.val # <<>>
        /\ IF GrepMatches = {}
           THEN last.converted.val = <<"Pattern '">> \o GrepPattern \o <<"' not found">>
           ELSE /\ Len(LastLines) = Cardinality(GrepMatches)
                /\ \A m \in GrepMatches :
                       \E j \in 1..Len(LastLines) : LastLines[j] = MatchLine(m)

\* the prefixes of the commands that are declined and the message of each
\* kind; the message for git ends with the command itself
DeclineKinds ==
    {[prefix |-> <<"g", "i", "t">>, echo |-> TRUE,
      message |-> <<"Git operations are not supported in web mode. Command blocked: ">>],
     [prefix |-> <<"m", "k", "d", "i", "r">>, echo |-> FALSE,
      message |-> <<"Directory creation is handled automatically in web mode.">>],
     [prefix |-> <<"t", "o", "u", "c", "h">>, echo |-> FALSE,
      message |-> <<"File creation is handled automatically in web mode.">>],
     [prefix |-> <<"r", "m">>, echo |-> FALSE,
      message |-> <<"File deletion is not supported in web mode for safety.">>],
     [prefix |-> <<"c", "p">>, echo |-> FALSE,
      message |-> <<"File copying is not supported in web mode.">>],
     [prefix |-> <<"c", "o", "p", "y">>, echo |-> FALSE,
      message |-> <<"File copying is not supported in web mode.">>],
     [prefix |-> <<"m", "v">>, echo |-> FALSE,
      message |-> <<"File moving is not supported in web mode.">>],
     [prefix |-> <<"m", "o", "v", "e">>, echo |-> FALSE,
      message |-> <<"File moving is not supported in web mode.">>]}

\* call is an interception of a command beginning with the prefix of kind d
DeclineOf(call, d) ==
    call.kind = "intercepted" /\ StartsWith(Strip(call.command), d.prefix)

DeclineText(call, d) ==
    IF d.echo THEN d.message \o Strip(call.command) ELSE d.message

Filtered == "filter_response" \in DOMAIN replies

FilterResult == replies["filter_response"]

GitPush == <<"g", "i", "t", " ", "p", "u", "s", "h">>

\* C16: for every response text that contains a git push command,
\* filter_response returns a filtered_content without the literal substring
\* 'git push' and a commands_filtered list holding at least one match whose
\* command_type is GIT_OPERATION.
C16_GitPushFiltered ==
    (Filtered /\ Contains(content, GitPush)) =>
        /\ ~Contains(FilterResult.filtered_content, GitPush)
        /\ \E i \in 1..Len(FilterResult.commands_filtered) :
               FilterResult.commands_filtered[i].command_type = "GIT_OPERATION"

\* C17: for every response text, the filtered_content filter_response
\* returns holds no substring matching a pattern of the filter's own table:
\* is_shell_command(filtered_content) is False.
C17_NoShellCommandLeft ==
    Filtered => ~is_shell_command(FilterResult.filtered_content)

\* C18: applying filter_response to the filtered_content it returned gives
\* that content back unchanged.
C18_FilterIdempotent ==
    Filtered =>
        filter_response(FilterResult.filtered_content).filtered_content
            = FilterResult.filtered_content

\* the classifications on record: those returned by direct calls and those
\* the gate put into the tracker's operations
Classifications ==
    {[command |-> c.command, operation_type |-> c.operation_type, priority |-> c.priority] :
        c \in classified}
    \cup {[command |-> tracker_ops[i].original_command,
           operation_type |-> tracker_ops[i].operation_type,
           priority |-> tracker_ops[i].priority] : i \in 1..Len(tracker_ops)}

SameCommandSameClass ==
    \A a, b \in Classifications : a.command = b.command => a = b

\* a direct call of the classifier methods leaves every wrapper field alone
ClassifyChangesNothing ==
    classified' # classified => UNCHANGED wrapper_fields

C20_SharedTaxonomy ==
    "get_command_type" \in DOMAIN replies =>
        /\ ShellCommandType = ClassifierTypes
        /\ Cardinality(ShellCommandType) = 11
        /\ replies["get_command_type"] \in ShellCommandType
        /\ replies["get_command_type"] = _classify_command_type(content)

\* C21: the gate's classifier gives a command the type of the first rule
\* it matches over all ten non-fallback types: the operation recorded for
\* 'pip install flask' has type PACKAGE_INSTALL, and SHELL_COMMAND is
\* recorded only for a command that no type's rule matches.
C21_ClassifiedOverAllTypes ==
    \A i \in 1..Len(tracker_ops) :
        /\ tracker_ops[i].original_command = PipInstall =>
               tracker_ops[i].operation_type = "PACKAGE_INSTALL"
        /\ tracker_ops[i].operation_type = "SHELL_COMMAND" =>
               get_command_type(tracker_ops[i].original_command) = NoType

\* the positions in tracker_calls of the calls made for operation id, by
\* call name and status
CallsFor(id, call, status) ==
    {k \in 1..Len(tracker_calls) :
        /\ tracker_calls[k].operation_id = id
        /\ tracker_calls[k].call = call
        /\ tracker_calls[k].status = status}

\* C22: with an active tracking session, when conversion is attempted
\* either create_operation and the update to IN_PROGRESS have both
\* completed, in that order, or both were skipped: no operation is created
\* without being moved to IN_PROGRESS.
C22_TrackStartAllOrNothing ==
    \A id \in 1..Len(tracker_ops) :
        /\ Len(tracker_ops[id].history) >= 2
        /\ tracker_ops[id].history[2] = "IN_PROGRESS"
        /\ \E c \in CallsFor(id, "create_operation", "CREATED") :
               \E u \in CallsFor(id, "update_operation", "IN_PROGRESS") :
                   c < u /\ tracker_calls[c].ok /\ tracker_calls[u].ok

\* the positions in tracker_calls of all calls made for operation id
AllCallsFor(id) == {k \in 1..Len(tracker_calls) : tracker_calls[k].operation_id = id}

\* C23: with an active tracking session and a tracker that does not fail,
\* an interception issues exactly three tracker calls in this order:
\* create_operation, the update to IN_PROGRESS and one terminal update; the
\* terminal status is COMPLETED, with the returned output as
\* web_equivalent_output, exactly when the exit code is 0, and FAILED
\* exactly when it is 1.
C23_ThreeCallsInOrder ==
    \A id \in 1..Len(tracker_ops) :
        (\A k \in AllCallsFor(id) : tracker_calls[k].ok) =>
            /\ Cardinality(AllCallsFor(id)) = 3
            /\ \E c \in CallsFor(id, "create_operation", "CREATED") :
                   \E u \in CallsFor(id, "update_operation", "IN_PROGRESS") :
                       \E t \in CallsFor(id, "update_operation", "COMPLETED")
                                    \cup CallsFor(id, "update_operation", "FAILED") :
                           c < u /\ u < t
            /\ (Intercepted /\ last.operation_id = id) =>
                   /\ last.code = 0 <=>
                          /\ tracker_ops[id].status = "COMPLETED"
                          /\ tracker_ops[id].web_equivalent_output = Some(last.output)
                   /\ last.code = 1 <=> tracker_ops[id].status = "FAILED"

\* C24: filter_response runs the per-type substitution to completion, then
\* the fenced-block pass on the substituted content, then the inline pass
\* on what the block pass left; so a fenced block whose shell content was
\* replaced in the per-type pass is not replaced as a whole by the
\* security notice.
C24_SubstitutedBlockKept ==
    Filtered =>
        /\ FilterResult.filtered_content
               = _filter_code_blocks(Substituted(content).filtered_content).filtered_content
        /\ (CodeBlocksFrom(content, 1) # <<>> /\ Substituted(content).alternatives_suggested > 0)
               => ~Contains(FilterResult.filtered_content, BlockSecurityMessage)

\* the glob pattern of the last find command: the shell word after -name
NamePosition == CHOOSE k \in 1..Len(LastWords) : LastWords[k] = NameFlag

HasNamePattern ==
    /\ \E k \in 1..Len(LastWords) : LastWords[k] = NameFlag
    /\ NamePosition < Len(LastWords)

\* the indexes of the repository files the last find command asks for
FindWanted ==
    {i \in 1..Len(LastRepo.files) :
        HasNamePattern => FnMatch(LastRepo.files[i], LastWords[NamePosition + 1])}

FoundLines == IF last.converted.val = <<>> THEN <<>> ELSE LastLines

\* C25: for a find command on an accessor that answers, the converter
\* returns one line for each repository file, in ascending path order:
\* the files whose path matches the glob pattern given after -name (its
\* quotes stripped) when there is one, every file otherwise; no other path
\* and no path twice.
C25_FindListsMatchingPaths ==
    (/\ Intercepted
     /\ StartsWith(LastCommand, <<"f", "i", "n", "d">>)
     /\ ~Raises(LastRepo, "list_files")) =>
        /\ last.converted.some
        /\ Len(FoundLines) = Cardinality(FindWanted)
        /\ \A i \in FindWanted : \E j \in 1..Len(FoundLines) : FoundLines[j] = LastRepo.files[i]
        /\ \A i, j \in 1..Len(FoundLines) : i < j => StrLess(FoundLines[i], FoundLines[j])

\* the rules of C26: a prefix of the normalised command and its priority
PriorityRules ==
    {[prefix |-> p, priority |-> "CRITICAL"] : p \in {<<"g", "i", "t">>, <<"c", "d">>}}
    \cup {[prefix |-> p, priority |-> "HIGH"] :
             p \in {<<"l", "s">>, <<"c", "a", "t">>, <<"g", "r", "e", "p">>, <<"f", "i", "n", "d">>}}
    \cup {[prefix |-> p, priority |-> "LOW"] :
             p \in {<<"h", "e", "a", "d">>, <<"t", "a", "i", "l">>, <<"l", "e", "s", "s">>,
                    <<"m", "o", "r", "e">>, <<"a", "w", "k">>, <<"s", "e", "d">>}}

\* the priorities of the rules a command satisfies
PrioritiesOf(command) ==
    {r.priority : r \in {q \in PriorityRules : StartsWith(Lower(Strip(command)), q.prefix)}}

\* C26: _determine_command_priority returns CRITICAL for commands beginning
\* with git or cd, HIGH for ls, cat, grep or find, LOW for head, tail,
\* less, more, awk or sed and MEDIUM for every other command, letter case
\* and surrounding whitespace ignored; no command satisfies rules of two
\* priorities, so the order of the tests does not matter.
C26_PriorityByRule ==
    /\ \A r, q \in PriorityRules :
           r.priority # q.priority => ~StartsWith(r.prefix, q.prefix)
    /\ \A c \in classified :
           /\ Cardinality(PrioritiesOf(c.command)) <= 1
           /\ PrioritiesOf(c.command) = {} => c.priority = "MEDIUM"
           /\ PrioritiesOf(c.command) # {} => c.priority \in PrioritiesOf(c.command)

\* C26 witness: an upper-case git command with leading blanks was given
\* CRITICAL and a command of another rule LOW
C26_Witness ==
    /\ \E c \in classified : c.command = GitUpper /\ c.priority = "CRITICAL"
    /\ \E c \in classified : c.command = LessApp /\ c.priority = "LOW"

\* every wrapper that was created has been cleaned up
AllCleanedUp ==
    /\ \E w \in Wrappers : wstate[w] # "unborn"
    /\ \A w \in Wrappers : wstate[w] # "live"

RestoredWhenAllCleanedUp ==
    /\ AllCleanedUp => run_cmd = Original
    /\ \A w \in Wrappers : wstate[w] \in {"cleaned", "deleted"} => run_cmd # w

\* the cleanup that __del__ runs on a wrapper already cleaned up leaves the
\* interceptor of a live wrapper installed
RepeatedCleanupKeepsPatch ==
    \A w, u \in Wrappers :
        (/\ wstate[w] = "cleaned" /\ wstate'[w] = "deleted"
         /\ Live(u) /\ run_cmd = u) => run_cmd' = u

\* C27: once every created wrapper is cleaned up, in any order of cleanup,
\* __del__ and creation, run_cmd.run_cmd is the original function; no
\* cleaned-up wrapper's interceptor stays installed, and a repeated cleanup
\* never undoes the patch of a wrapper created after the first cleanup.
C27_OriginalRestored ==
    [](RestoredWhenAllCleanedUp) /\ [][RepeatedCleanupKeepsPatch]_vars

\* what the same call returns and leaves behind with tracking active
WithTracking(v, command, fail) ==
    _intercept_shell_command([Self(v) EXCEPT !.session_id = "s1"],
                             [ops |-> tracker_ops, calls |-> tracker_calls],
                             clock, command, fail)

UntrackedInterception ==
    \A v \in Wrappers :
        (/\ last'.kind = "intercepted" /\ last'.at = clock /\ clock' = clock + 1
         /\ last'.target = v
         /\ session_id[v] \in {"unset", ""}) =>
            /\ tracker_calls' = tracker_calls
            /\ tracker_ops' = tracker_ops
            /\ last'.operation_id = 0
            /\ intercepted'[v] = Append(intercepted[v], last'.command)
            /\ conversion_status'[v].total_operations
                   = conversion_status[v].total_operations + 1
            /\ \A fail \in FailureModes :
                   LET tracked == WithTracking(v, last'.command, fail)
                   IN /\ last'.code = tracked.code
                      /\ last'.output = tracked.output
                      /\ intercepted'[v] = tracked.log
                      /\ conversion_status'[v] = tracked.status

\* C28: with no session id set (set_session_id never called, or called with
\* an empty value) _intercept_shell_command makes no tracker call, and still
\* appends to the log, updates the counters and returns the pair it would
\* return with tracking active.
C28_NoSessionNoTracking == [][UntrackedInterception]_vars

\* C28 witness: one interception was tracked, then the session id was set to
\* the empty string and a second interception made no tracker call
C28_Witness ==
    /\ last.kind = "intercepted" /\ last.operation_id = 0
    /\ session_id[1] = ""
    /\ conversion_status[1].total_operations = 2
    /\ Len(intercepted[1]) >= 1
    /\ Len(tracker_ops) = 1
    /\ Cardinality({k \in 1..Len(tracker_calls) : tracker_calls[k].call = "create_operation"}) = 1

IsPrefix(s, t) == Len(s) <= Len(t) /\ SubSeq(t, 1, Len(s)) = s

\* this step is an interception handled by the gate of wrapper w
InterceptionBy(w) ==
    /\ last'.kind = "intercepted" /\ last'.at = clock /\ clock' = clock + 1
    /\ last'.target = w

\* One step seen from wrapper w: the log is emptied when process_message
\* starts, grows by the command of each interception, and is what the
\* response carries when process_message returns; the counters change in
\* interceptions only, and only upwards.
LogAndCountersStep(w) ==
    /\ (pm[w] = "idle" /\ pm'[w] = "running") =>
           intercepted'[w] = <<>> /\ conversion_status'[w] = conversion_status[w]
    /\ (pm[w] = "running" /\ pm'[w] = "idle") =>
           /\ response'[w] = intercepted[w]
           /\ intercepted'[w] = intercepted[w]
           /\ conversion_status'[w] = conversion_status[w]
    /\ InterceptionBy(w) =>
           /\ intercepted'[w] = Append(intercepted[w], last'.command)
           /\ conversion_status'[w].total_operations
                  = conversion_status[w].total_operations + 1
           /\ conversion_status'[w].converted_operations
                  >= conversion_status[w].converted_operations
           /\ IsPrefix(conversion_status[w].pending_conversions,
                       conversion_status'[w].pending_conversions)
    /\ (~InterceptionBy(w) /\ pm'[w] = pm[w]) =>
           /\ intercepted'[w] = intercepted[w]
           /\ conversion_status'[w] = conversion_status[w]
           /\ response'[w] = response[w]

LogWithinTotal ==
    \A w \in Wrappers : Len(intercepted[w]) <= conversion_status[w].total_operations

TrackedToTheEnd(id) == \A k \in AllCallsFor(id) : tracker_calls[k].ok

\* C30: the classifier and the converter recognise the same commands:
\* _convert_shell_command returns a non-None result exactly when
\* _classify_command_type assigns a type other than SHELL_COMMAND, so a
\* tracked operation ends FAILED exactly when its type is SHELL_COMMAND.
C30_ConverterMatchesClassifier ==
    /\ Intercepted =>
           (last.converted.some <=> _classify_command_type(last.command) # "SHELL_COMMAND")
    /\ \A id \in 1..Len(tracker_ops) :
           TrackedToTheEnd(id) =>
               (tracker_ops[id].status = "FAILED"
                    <=> tracker_ops[id].operation_type = "SHELL_COMMAND")

====
